---- MODULE Spec2Model ----
(***************************************************************************)
(* A model of icza/s2prot: the protocol registry (protocol.go), the        *)
(* bit-packed buffer (bitpackedbuff.go), the two schema-directed decoders  *)
(* (rep/details.go, versioneddec.go) and the event-stream framing          *)
(* (protocol.go, decodeEvts).                                              *)
(*                                                                         *)
(* Three specifications share the module:                                  *)
(*   SpecReg   concurrent GetProtocol calls on the registry                *)
(*   SpecBits  sequences of reads on one bitPackedBuff                     *)
(*   SpecEvts  one decodeEvts run over a game, message or tracker stream   *)
(***************************************************************************)
EXTENDS Integers, Sequences, FiniteSets, TLC

VARIABLES
    protocols,  \* protocol.go:67   map base build -> pointer (0 is the nil pointer)
    heap,       \* the allocated Protocol values; a pointer is an index of heap
    protMux,    \* protocol.go:69   0 when unlocked, else the goroutine that locked it
    thr,        \* per goroutine: position in GetProtocol, its argument and call stack,
                \* and at "idle" the result of the goroutine's last call
    parses,     \* per base build: how many times parseProtocol ran on its schema
    b,          \* the bitPackedBuff: contents, bigEndian, idx, cache, cacheBits
    last,       \* the last buffer operation: its width and its result
    stream,     \* decodeEvts: the call (its arguments, and the fragments its input is made of)
    events,     \* decodeEvts: the events result
    loop,       \* decodeEvts: the running gameloop
    err,        \* decodeEvts: the err result, "" for nil
    evpc        \* decodeEvts: "idle" before the call, "loop" in the for loop, "done" after return

vars == <<protocols, heap, protMux, thr, parses, b, last,
          stream, events, loop, err, evpc>>

regVars == <<protocols, heap, protMux, thr, parses>>
bufVars == <<b, last>>
evtVars == <<stream, events, loop, err, evpc>>

(***************************************************************************)
(* Bounds of the model.                                                    *)
(***************************************************************************)
NumThreads == 2

Threads == 1..NumThreads

Nil == 0

(***************************************************************************)
(* build.Builds and build.Duplicates (package build).  A schema source is  *)
(* the sequence of its sections, each with the integer on its line (num    *)
(* tells whether the text after '=' is an integer at all).  The tables     *)
(* obey build_test.go: a duplicate is no key of Builds and names a key of  *)
(* Builds.                                                                 *)
(***************************************************************************)
Line(key, val) == [key |-> key, val |-> val, num |-> TRUE]

SchemaHead ==
    << Line("typeinfos", 1), Line("game_event_types", 1),
       Line("game_eventid_typeid", 0), Line("message_event_types", 2),
       Line("message_eventid_typeid", 1) >>

SchemaTail ==
    << Line("replay_header_typeid", 13), Line("game_details_typeid", 14),
       Line("replay_initdata_typeid", 15) >>

\* A schema of a build from 24944 on: user ids and tracker events.
TrackerSchema ==
    SchemaHead \o << Line("tracker_event_types", 3), Line("tracker_eventid_typeid", 2),
                     Line("svaruint32_typeid", 7), Line("replay_userid_typeid", 8) >>
               \o SchemaTail

\* A schema of a build before 24764: player ids.
PlayerSchema ==
    SchemaHead \o << Line("svaruint32_typeid", 7), Line("replay_playerid_typeid", 8) >>
               \o SchemaTail

\* A malformed schema: the value of game_details_typeid is no integer.
GarbledSchema ==
    SchemaHead \o << Line("tracker_event_types", 3), Line("tracker_eventid_typeid", 2),
                     Line("svaruint32_typeid", 7), Line("replay_userid_typeid", 8),
                     Line("replay_header_typeid", 13),
                     [key |-> "game_details_typeid", val |-> 0, num |-> FALSE],
                     Line("replay_initdata_typeid", 15) >>

Builds ==
    (16561 :> PlayerSchema) @@ (28667 :> GarbledSchema) @@ (38215 :> TrackerSchema)

Duplicates == (28672 :> 28667) @@ (38996 :> 38215)

\* The base builds GetProtocol is called with: every key of the two tables
\* and one build neither table knows.
BaseBuilds == DOMAIN Builds \cup DOMAIN Duplicates \cup {15000}

(***************************************************************************)
(* parseProtocol (protocol.go:123-263).                                    *)
(***************************************************************************)
\* seek (protocol.go:139-147): the scanner reads on from line pos; the result
\* is the index of the first line with the prefix, 0 when there is none (panic).
seek(src, pos, prefix) ==
    LET hits == {i \in pos..Len(src) : src[i].key = prefix}
    IN  IF hits = {} THEN 0 ELSE CHOOSE i \in hits : \A j \in hits : i <= j

\* The prefixes parseProtocol seeks, in its order, for a base build.
seekKeys(baseBuild) ==
    << "typeinfos", "game_event_types", "game_eventid_typeid",
       "message_event_types", "message_eventid_typeid" >>
    \o (IF baseBuild >= 24944
        THEN << "tracker_event_types", "tracker_eventid_typeid" >> ELSE << >>)
    \o << "svaruint32_typeid",
          IF baseBuild >= 24764 THEN "replay_userid_typeid" ELSE "replay_playerid_typeid",
          "replay_header_typeid", "game_details_typeid", "replay_initdata_typeid" >>

\* The lines the seeks stop at, in order; << >> when a seek or a parseInt panics.
RECURSIVE seekAll(_, _, _, _)
seekAll(src, pos, keys, found) ==
    IF keys = << >> THEN found
    ELSE LET i == seek(src, pos, Head(keys))
         IN  IF i = 0 \/ ~src[i].num THEN << >>
             ELSE seekAll(src, i + 1, Tail(keys), Append(found, src[i]))

valOf(found, key) ==
    LET hits == {i \in 1..Len(found) : found[i].key = key}
    IN  IF hits = {} THEN 0 ELSE found[CHOOSE i \in hits : TRUE].val

\* The body of parseProtocol: ok is FALSE when it panicked.
parseBody(src, baseBuild) ==
    LET found == seekAll(src, 1, seekKeys(baseBuild), << >>)
    IN  [ok |-> found # << >>,
         p  |-> [baseBuild            |-> baseBuild,
                 hasTrackerEvents     |-> baseBuild >= 24944,
                 typeInfos            |-> valOf(found, "typeinfos"),
                 gameEvtTypes         |-> valOf(found, "game_event_types"),
                 gameEventidTypeid    |-> valOf(found, "game_eventid_typeid"),
                 messageEvtTypes      |-> valOf(found, "message_event_types"),
                 messageEventidTypeid |-> valOf(found, "message_eventid_typeid"),
                 trackerEvtTypes      |-> valOf(found, "tracker_event_types"),
                 trackerEventidTypeid |-> valOf(found, "tracker_eventid_typeid"),
                 svaruint32Typeid     |-> valOf(found, "svaruint32_typeid"),
                 replayUseridTypeid   |->
                     valOf(found, IF baseBuild >= 24764 THEN "replay_userid_typeid"
                                  ELSE "replay_playerid_typeid"),
                 replayHeaderTypeid   |-> valOf(found, "replay_header_typeid"),
                 gameDetailsTypeid    |-> valOf(found, "game_details_typeid"),
                 replayInitdataTypeid |-> valOf(found, "replay_initdata_typeid")]]

\* parseProtocol without its deferred recover: the panic leaves the function.
parseProtocolNoRecover(src, baseBuild) ==
    LET r == parseBody(src, baseBuild)
    IN  [panicked |-> ~r.ok, ok |-> r.ok, p |-> r.p]

\* parseProtocol: the deferred recover (protocol.go:125-130) ends every panic
\* of the body, and nil is returned then.
parseProtocol(src, baseBuild) ==
    LET r == parseBody(src, baseBuild)
    IN  [panicked |-> FALSE, ok |-> r.ok, p |-> r.p]

(***************************************************************************)
(* GetProtocol / getProtocol (protocol.go:74-119), one action per step of  *)
(* a goroutine.  A frame of the call stack is one activation of            *)
(* getProtocol: its baseBuild, where it is, and its local p (or, while it  *)
(* waits for the recursive call, op).                                      *)
(***************************************************************************)
Frame(baseBuild, at) == [baseBuild |-> baseBuild, at |-> at, p |-> Nil]

Top(t) == thr[t].stack[Len(thr[t].stack)]

AtStep(t, at) ==
    /\ thr[t].pc = "getProtocol"
    /\ Top(t).at = at

\* protMux.Lock() may proceed (sync.Mutex: only when unlocked).
MutexFreeBroken(mux) == TRUE

MutexFree(mux) == mux = 0

\* p, ok := protocols[baseBuild]; the ok of protocol.go:86-87.
LookupHitNonNil(prots, baseBuild) ==
    baseBuild \in DOMAIN prots /\ prots[baseBuild] # Nil

LookupHit(prots, baseBuild) == baseBuild \in DOMAIN prots

\* The clone of protocol.go:109-111 done on the original itself (p = op).
CloneAliased(hp, op, baseBuild) ==
    [heap |-> [hp EXCEPT ![op].baseBuild = baseBuild], p |-> op]

\* p = new(Protocol); *p = *op; p.baseBuild = baseBuild (protocol.go:109-111).
CloneProtocol(hp, op, baseBuild) ==
    [heap |-> Append(hp, [hp[op] EXCEPT !.baseBuild = baseBuild]),
     p    |-> Len(hp) + 1]

\* GetProtocol(baseBuild) is called.
Call(t) ==
    /\ thr[t].pc = "idle"
    /\ \E baseBuild \in BaseBuilds :
         thr' = [thr EXCEPT ![t] = [@ EXCEPT !.pc = "lock", !.arg = baseBuild,
                                             !.stack = << >>, !.ret = Nil]]
    /\ UNCHANGED <<protocols, heap, protMux, parses, bufVars, evtVars>>

\* protMux.Lock() (protocol.go:75), then getProtocol(baseBuild) is entered.
Lock(t) ==
    /\ thr[t].pc = "lock"
    /\ MutexFree(protMux)
    /\ protMux' = t
    /\ thr' = [thr EXCEPT ![t] = [@ EXCEPT !.pc = "getProtocol",
                                           !.stack = << Frame(thr[t].arg, "lookup") >>]]
    /\ UNCHANGED <<protocols, heap, parses, bufVars, evtVars>>

\* return p of the top activation: to the waiting activation below it, or to
\* GetProtocol, whose deferred Unlock comes next.
ReturnFrom(t, p) ==
    LET st == thr[t].stack
        n  == Len(st)
    IN  IF n = 1
        THEN [thr[t] EXCEPT !.pc = "unlock", !.stack = << >>, !.ret = p]
        ELSE [thr[t] EXCEPT !.stack = [SubSeq(st, 1, n - 1) EXCEPT ![n - 1].p = p]]

\* protocol.go:86-102: the map read, then the two build tables.
Lookup(t) ==
    /\ AtStep(t, "lookup")
    /\ LET f == Top(t)
           n == Len(thr[t].stack)
       IN  thr' = [thr EXCEPT ![t] =
             IF LookupHit(protocols, f.baseBuild)
             THEN ReturnFrom(t, protocols[f.baseBuild])
             ELSE IF f.baseBuild \in DOMAIN Builds
             THEN [@ EXCEPT !.stack[n].at = "parse"]
             ELSE IF f.baseBuild \in DOMAIN Duplicates
             THEN [@ EXCEPT !.stack = Append([thr[t].stack EXCEPT ![n].at = "clone"],
                                             Frame(Duplicates[f.baseBuild], "lookup"))]
             ELSE [@ EXCEPT !.stack[n].at = "store"]]
    /\ UNCHANGED <<protocols, heap, protMux, parses, bufVars, evtVars>>

\* protocol.go:96: p = parseProtocol(src, baseBuild).  A panic that leaves
\* parseProtocol unwinds getProtocol and GetProtocol (the deferred Unlock runs).
Parse(t) ==
    /\ AtStep(t, "parse")
    /\ LET f == Top(t)
           n == Len(thr[t].stack)
           r == parseProtocol(Builds[f.baseBuild], f.baseBuild)
       IN  /\ parses' = [parses EXCEPT ![f.baseBuild] = @ + 1]
           /\ IF r.panicked
              THEN /\ thr' = [thr EXCEPT ![t] = [@ EXCEPT !.pc = "unlock", !.stack = << >>,
                                                          !.panicked = TRUE]]
                   /\ heap' = heap
              ELSE IF r.ok
              THEN /\ heap' = Append(heap, r.p)
                   /\ thr' = [thr EXCEPT ![t] = [@ EXCEPT !.stack[n].at = "store",
                                                          !.stack[n].p = Len(heap) + 1]]
              ELSE /\ heap' = heap
                   /\ thr' = [thr EXCEPT ![t] = [@ EXCEPT !.stack[n].at = "store",
                                                          !.stack[n].p = Nil]]
    /\ UNCHANGED <<protocols, protMux, bufVars, evtVars>>

\* protocol.go:107-112: the recursive call has returned op (in the frame's p).
Clone(t) ==
    /\ AtStep(t, "clone")
    /\ LET f == Top(t)
           n == Len(thr[t].stack)
       IN  IF f.p # Nil
           THEN LET c == CloneProtocol(heap, f.p, f.baseBuild)
                IN  /\ heap' = c.heap
                    /\ thr' = [thr EXCEPT ![t] = [@ EXCEPT !.stack[n].at = "store",
                                                           !.stack[n].p = c.p]]
           ELSE /\ heap' = heap
                /\ thr' = [thr EXCEPT ![t] = [@ EXCEPT !.stack[n].at = "store"]]
    /\ UNCHANGED <<protocols, protMux, parses, bufVars, evtVars>>

\* protocols[baseBuild] = p; return p (protocol.go:97-98 and 117-118).
Store(t) ==
    /\ AtStep(t, "store")
    /\ LET f == Top(t)
       IN  /\ protocols' = [x \in DOMAIN protocols \cup {f.baseBuild} |->
                               IF x = f.baseBuild THEN f.p ELSE protocols[x]]
           /\ thr' = [thr EXCEPT ![t] = ReturnFrom(t, f.p)]
    /\ UNCHANGED <<heap, protMux, parses, bufVars, evtVars>>

\* The deferred protMux.Unlock() (protocol.go:76); GetProtocol then returns to
\* its caller, or the panic goes on to it.
Unlock(t) ==
    /\ thr[t].pc = "unlock"
    /\ protMux' = 0
    /\ thr' = [thr EXCEPT ![t] = [@ EXCEPT !.pc = IF thr[t].panicked THEN "panicked"
                                                         ELSE "idle"]]
    /\ UNCHANGED <<protocols, heap, parses, bufVars, evtVars>>

\* The values the variables of the other two specifications rest at.
BufIdle ==
    /\ b = [contents |-> << >>, bigEndian |-> TRUE, idx |-> 0, cache |-> 0, cacheBits |-> 0]
    /\ last = [op |-> "none", n |-> 0, val |-> 0]

EvtIdle ==
    /\ stream = [kind |-> "none", frags |-> << >>, d |-> "", evtidTypeid |-> 0,
                 etypes |-> << >>, decUserId |-> FALSE]
    /\ events = << >>
    /\ loop = 0
    /\ err = ""
    /\ evpc = "done"

RegIdle ==
    /\ protocols = << >>
    /\ heap = << >>
    /\ protMux = 0
    /\ thr = [t \in Threads |-> [pc |-> "idle", arg |-> Nil, stack |-> << >>,
                                 ret |-> Nil, panicked |-> FALSE]]
    /\ parses = [x \in BaseBuilds |-> 0]

\* The registry after package initialisation: the map is empty (protocol.go:67).
InitReg == RegIdle /\ BufIdle /\ EvtIdle

NextReg ==
    \E t \in Threads :
        \/ Call(t)
        \/ Lock(t)
        \/ Lookup(t)
        \/ Parse(t)
        \/ Clone(t)
        \/ Store(t)
        \/ Unlock(t)

SpecReg == InitReg /\ [][NextReg]_vars

(***************************************************************************)
(* bitPackedBuff (bitpackedbuff.go).  A buffer is a record                 *)
(*   [contents, bigEndian, idx, cache, cacheBits];                         *)
(* contents is 1-based here, so Go's contents[idx] is contents[idx + 1].   *)
(* Every read gives [ok, val, b]: ok is FALSE when the read panicked       *)
(* (index out of range), val is the value returned and b the buffer after  *)
(* the read (at a panic: the buffer as the panic left it).                 *)
(* Values stay below 2^31 within the bounds of the model (widths up to     *)
(* MaxBits, varints of up to four bytes), so int64 arithmetic is exact.    *)
(***************************************************************************)
Pow2(k) == 2 ^ k

\* x >> k
Shr(x, k) == x \div Pow2(k)

\* x << k on an int64
Shl(x, k) == x * Pow2(k)

\* x << k on a byte
ShlByte(x, k) == (x * Pow2(k)) % 256

\* x & bitMasks[k] (bitpackedbuff.go:10)
Mask(x, k) == x % Pow2(k)

\* x | y on non-negative integers
RECURSIVE Or(_, _)
Or(x, y) ==
    IF x = 0 THEN y
    ELSE IF y = 0 THEN x
    ELSE 2 * Or(x \div 2, y \div 2) + (IF x % 2 = 1 \/ y % 2 = 1 THEN 1 ELSE 0)

\* x & y on non-negative integers
RECURSIVE And(_, _)
And(x, y) ==
    IF x = 0 \/ y = 0 THEN 0
    ELSE 2 * And(x \div 2, y \div 2) + (IF x % 2 = 1 /\ y % 2 = 1 THEN 1 ELSE 0)

NewBuff(contents, bigEndian) ==
    [contents |-> contents, bigEndian |-> bigEndian, idx |-> 0, cache |-> 0, cacheBits |-> 0]

Panic(bb) == [ok |-> FALSE, val |-> 0, b |-> bb]

Ret(val, bb) == [ok |-> TRUE, val |-> val, b |-> bb]

\* EOF told from the byte cursor alone.
EOFIdxOnly(bb) == bb.idx >= Len(bb.contents)

\* bitpackedbuff.go:22-24
EOF(bb) == bb.cacheBits = 0 /\ bb.idx >= Len(bb.contents)

\* A byteAlign that keeps the bits of the cache.
byteAlignKeepsCache(bb) == bb

\* bitpackedbuff.go:28-30
byteAlign(bb) == [bb EXCEPT !.cacheBits = 0]

\* b.contents[b.idx] can be read
InRange(bb) == bb.idx < Len(bb.contents)

\* A read of one bit that takes the highest bit of a byte first.
readBits1HighFirst(bb) ==
    IF bb.cacheBits = 0
    THEN IF ~InRange(bb) THEN Panic(bb)
         ELSE LET cache == bb.contents[bb.idx + 1]
              IN  Ret(And(cache, 128) = 128,
                      [bb EXCEPT !.cache = And(cache, 127), !.idx = @ + 1, !.cacheBits = 7])
    ELSE Ret(And(bb.cache, Pow2(bb.cacheBits - 1)) # 0,
             [bb EXCEPT !.cache = And(@, Pow2(bb.cacheBits - 1) - 1), !.cacheBits = @ - 1])

\* bitpackedbuff.go:35-50
readBits1(bb) ==
    IF bb.cacheBits = 0
    THEN IF ~InRange(bb) THEN Panic(bb)
         ELSE LET cache == bb.contents[bb.idx + 1]
              IN  Ret(And(cache, 1) = 1,
                      [bb EXCEPT !.cache = Shr(cache, 1), !.idx = @ + 1, !.cacheBits = 7])
    ELSE Ret(And(bb.cache, 1) = 1,
             [bb EXCEPT !.cache = Shr(@, 1), !.cacheBits = @ - 1])

\* readBits8 that leaves the byte it took the low bits of unshifted in the
\* cache.
readBits8NoShift(bb) ==
    IF ~InRange(bb) THEN Panic(bb)
    ELSE IF bb.cacheBits = 0
    THEN Ret(bb.contents[bb.idx + 1], [bb EXCEPT !.idx = @ + 1])
    ELSE LET compBits == 8 - bb.cacheBits
             next     == bb.contents[bb.idx + 1]
             r        == IF bb.bigEndian
                         THEN Or(ShlByte(bb.cache, compBits), Mask(next, compBits))
                         ELSE Or(bb.cache, ShlByte(Mask(next, compBits), bb.cacheBits))
         IN  Ret(r, [bb EXCEPT !.cache = next, !.idx = @ + 1])

\* bitpackedbuff.go:55-79
readBits8(bb) ==
    IF ~InRange(bb) THEN Panic(bb)
    ELSE IF bb.cacheBits = 0
    THEN Ret(bb.contents[bb.idx + 1], [bb EXCEPT !.idx = @ + 1])
    ELSE LET compBits == 8 - bb.cacheBits
             next     == bb.contents[bb.idx + 1]
             r        == IF bb.bigEndian
                         THEN Or(ShlByte(bb.cache, compBits), Mask(next, compBits))
                         ELSE Or(bb.cache, ShlByte(Mask(next, compBits), bb.cacheBits))
         IN  Ret(r, [bb EXCEPT !.cache = Shr(next, compBits), !.idx = @ + 1])

\* The loop of readBitsLittle (bitpackedbuff.go:169-198).
RECURSIVE readBitsLittleLoop(_, _, _, _)
readBitsLittleLoop(bb, n, value, valueBits) ==
    IF bb.cacheBits = 0 /\ ~InRange(bb) THEN Panic(bb)
    ELSE LET b1 == IF bb.cacheBits = 0
                   THEN [bb EXCEPT !.cache = bb.contents[bb.idx + 1], !.idx = @ + 1,
                                   !.cacheBits = 8]
                   ELSE bb
         IN  IF n > b1.cacheBits
             THEN readBitsLittleLoop([b1 EXCEPT !.cacheBits = 0], n - b1.cacheBits,
                                     Or(value, Shl(b1.cache, valueBits)),
                                     valueBits + b1.cacheBits)
             ELSE IF n < b1.cacheBits
             THEN Ret(Or(value, Shl(Mask(b1.cache, n), valueBits)),
                      [b1 EXCEPT !.cacheBits = @ - n, !.cache = Shr(@, n)])
             ELSE Ret(Or(value, Shl(b1.cache, valueBits)), [b1 EXCEPT !.cacheBits = 0])

\* bitpackedbuff.go:169-198
readBitsLittle(bb, n) == readBitsLittleLoop(bb, n, 0, 0)

\* The loop of readBitsBig (bitpackedbuff.go:139-164).
RECURSIVE readBitsBigLoop(_, _, _)
readBitsBigLoop(bb, n, value) ==
    IF bb.cacheBits = 0 /\ ~InRange(bb) THEN Panic(bb)
    ELSE LET b1 == IF bb.cacheBits = 0
                   THEN [bb EXCEPT !.cache = bb.contents[bb.idx + 1], !.idx = @ + 1,
                                   !.cacheBits = 8]
                   ELSE bb
         IN  IF n > b1.cacheBits
             THEN readBitsBigLoop([b1 EXCEPT !.cacheBits = 0], n - b1.cacheBits,
                                  Or(Shl(value, b1.cacheBits), b1.cache))
             ELSE IF n < b1.cacheBits
             THEN Ret(Or(Shl(value, n), Mask(b1.cache, n)),
                      [b1 EXCEPT !.cacheBits = @ - n, !.cache = Shr(@, n)])
             ELSE Ret(Or(Shl(value, n), b1.cache), [b1 EXCEPT !.cacheBits = 0])

\* bitpackedbuff.go:138-165
readBitsBig(bb, n) == readBitsBigLoop(bb, n, 0)

\* The whole-byte loop of readBitsBigByte (bitpackedbuff.go:121-124).
RECURSIVE readBitsBigByteLoop(_, _, _)
readBitsBigByteLoop(bb, n, value) ==
    IF n > 8
    THEN IF ~InRange(bb) THEN [ok |-> FALSE, val |-> value, b |-> bb, n |-> n]
         ELSE readBitsBigByteLoop([bb EXCEPT !.idx = @ + 1], n - 8,
                                  Or(Shl(value, 8), bb.contents[bb.idx + 1]))
    ELSE [ok |-> TRUE, val |-> value, b |-> bb, n |-> n]

\* readBitsBigByte that leaves the last byte unshifted in the cache.
readBitsBigByteNoShift(bb, n) ==
    LET w == readBitsBigByteLoop(bb, n, bb.cache)
    IN  IF ~w.ok \/ ~InRange(w.b) THEN Panic(w.b)
        ELSE LET cache    == w.b.contents[w.b.idx + 1]
                 compBits == 8 - w.b.cacheBits
             IN  Ret(Or(Shl(w.val, compBits), Mask(cache, compBits)),
                     [w.b EXCEPT !.cache = cache, !.idx = @ + 1])

\* bitpackedbuff.go:116-134
readBitsBigByte(bb, n) ==
    LET w == readBitsBigByteLoop(bb, n, bb.cache)
    IN  IF ~w.ok \/ ~InRange(w.b) THEN Panic(w.b)
        ELSE LET cache    == w.b.contents[w.b.idx + 1]
                 compBits == 8 - w.b.cacheBits
             IN  Ret(Or(Shl(w.val, compBits), Mask(cache, compBits)),
                     [w.b EXCEPT !.cache = Shr(cache, compBits), !.idx = @ + 1])

\* The little-endian whole-byte path of readBits (bitpackedbuff.go:99-108).
RECURSIVE readBitsLittleByteLoop(_, _, _, _)
readBitsLittleByteLoop(bb, n, i, value) ==
    IF i < n
    THEN IF ~InRange(bb) THEN Panic(bb)
         ELSE readBitsLittleByteLoop([bb EXCEPT !.idx = @ + 1], n, i + 8,
                                     Or(value, Shl(bb.contents[bb.idx + 1], i)))
    ELSE Ret(value, bb)

\* readBits with the two byte orders mixed up.
readBitsWrongOrder(bb, n) ==
    IF n = 0 THEN Ret(0, bb)
    ELSE IF bb.bigEndian THEN readBitsLittle(bb, n) ELSE readBitsBig(bb, n)

\* bitpackedbuff.go:82-110
readBits(bb, n) ==
    IF n = 0 THEN Ret(0, bb)
    ELSE IF bb.bigEndian
    THEN IF And(n, 7) = 0 /\ bb.cacheBits # 0
         THEN readBitsBigByte(bb, n)
         ELSE readBitsBig(bb, n)
    ELSE IF And(n, 7) = 0 /\ bb.cacheBits = 0
    THEN readBitsLittleByteLoop(bb, n, 0, 0)
    ELSE readBitsLittle(bb, n)

\* buff = make([]byte, n); copy(buff, b.contents[b.idx:]): the n bytes, the
\* ones past the end of contents left zero.
CopyFrom(bb, n) ==
    [i \in 1..n |-> IF bb.idx + i <= Len(bb.contents) THEN bb.contents[bb.idx + i] ELSE 0]

\* The number of bytes copy() copied.
Copied(bb, n) ==
    IF Len(bb.contents) - bb.idx < n THEN Len(bb.contents) - bb.idx ELSE n

\* readAligned without the byteAlign.
readAlignedNoAlign(bb, n) ==
    IF n < 0 \/ bb.idx > Len(bb.contents) THEN Panic(bb)
    ELSE Ret(CopyFrom(bb, n), [bb EXCEPT !.idx = @ + Copied(bb, n)])

\* bitpackedbuff.go:201-208; make panics on a negative length, the slice
\* expression on idx > len.
readAligned(bb, n) ==
    LET b1 == byteAlign(bb)
    IN  IF n < 0 \/ b1.idx > Len(b1.contents) THEN Panic(b1)
        ELSE Ret(CopyFrom(b1, n), [b1 EXCEPT !.idx = @ + Copied(b1, n)])

\* The n <= 2 path of readUnaligned (bitpackedbuff.go:226-231).
RECURSIVE readUnalignedNaive(_, _, _)
readUnalignedNaive(bb, n, buff) ==
    IF Len(buff) = n THEN Ret(buff, bb)
    ELSE LET r == readBits(bb, 8)
         IN  IF ~r.ok THEN Panic(r.b)
             ELSE readUnalignedNaive(r.b, n, Append(buff, r.val % 256))

\* The big-endian loop that leaves the last byte unshifted in the cache.
RECURSIVE readUnalignedBigNoShift(_, _, _, _, _)
readUnalignedBigNoShift(bb, n, buff, cache, idx) ==
    IF Len(buff) = n THEN Ret(buff, [bb EXCEPT !.cache = cache, !.idx = idx])
    ELSE IF idx >= Len(bb.contents) THEN Panic(bb)
    ELSE readUnalignedBigNoShift(bb, n,
             Append(buff, Or(And(cache, 255 - (Pow2(8 - bb.cacheBits) - 1)),
                             And(bb.contents[idx + 1], Pow2(8 - bb.cacheBits) - 1))),
             bb.contents[idx + 1], idx + 1)

\* The big-endian loop of readUnaligned (bitpackedbuff.go:245-254); cache and
\* idx are its local variables.
RECURSIVE readUnalignedBig(_, _, _, _, _)
readUnalignedBig(bb, n, buff, cache, idx) ==
    LET complCacheBits == 8 - bb.cacheBits
        mask           == Pow2(complCacheBits) - 1
        umask          == 255 - mask
    IN  IF Len(buff) = n
        THEN Ret(buff, [bb EXCEPT !.cache = Shr(cache, complCacheBits), !.idx = idx])
        ELSE IF idx >= Len(bb.contents) THEN Panic(bb)
        ELSE LET value == And(cache, umask)
                 next  == bb.contents[idx + 1]
             IN  readUnalignedBig(bb, n, Append(buff, Or(value, And(next, mask))),
                                  next, idx + 1)

\* The little-endian loop of readUnaligned (bitpackedbuff.go:256-266).
RECURSIVE readUnalignedLittle(_, _, _, _, _)
readUnalignedLittle(bb, n, buff, cache, idx) ==
    LET complCacheBits == 8 - bb.cacheBits
    IN  IF Len(buff) = n
        THEN Ret(buff, [bb EXCEPT !.cache = cache, !.idx = idx])
        ELSE IF idx >= Len(bb.contents) THEN Panic(bb)
        ELSE LET value == Mask(cache, bb.cacheBits)
                 next  == bb.contents[idx + 1]
             IN  readUnalignedLittle(bb, n,
                                     Append(buff, Or(value, ShlByte(next, bb.cacheBits))),
                                     Shr(next, complCacheBits), idx + 1)

\* bitpackedbuff.go:211-273
readUnaligned(bb, n) ==
    IF n < 0 THEN Panic(bb)
    ELSE IF n = 0 THEN Ret(<< >>, bb)
    ELSE IF bb.cacheBits = 0
    THEN IF bb.idx > Len(bb.contents) THEN Panic(bb)
         ELSE Ret(CopyFrom(bb, n), [bb EXCEPT !.idx = @ + Copied(bb, n)])
    ELSE IF n <= 2 THEN readUnalignedNaive(bb, n, << >>)
    ELSE IF bb.bigEndian
    THEN readUnalignedBig(bb, n, << >>, ShlByte(bb.cache, 8 - bb.cacheBits), bb.idx)
    ELSE readUnalignedLittle(bb, n, << >>, bb.cache, bb.idx)

(***************************************************************************)
(* SpecBits: a bitPackedBuff over some contents, and the reads made on it  *)
(* one after the other.  last records the latest operation: its name, its  *)
(* argument n and the value it returned; after a panic nothing follows.    *)
(***************************************************************************)
MaxBufLen == 4

MaxBits == 16

MaxBytes == 3

\* The byte strings the buffers are cut from: the buffer of the package's
\* tests (bitpackedbuff.go:409) and one with high bits set.
Tapes ==
    { << 1, 2, 3, 4, 5, 6, 7, 8 >>, << 180, 195, 64, 170, 255, 0, 129, 126 >> }

BufContents ==
    { SubSeq(tape, i, i + n - 1) : tape \in Tapes, i \in 1..2, n \in 0..MaxBufLen }

InitBits ==
    /\ \E contents \in BufContents, bigEndian \in BOOLEAN :
          b = NewBuff(contents, bigEndian)
    /\ last = [op |-> "none", n |-> 0, val |-> 0]
    /\ RegIdle
    /\ EvtIdle

\* The outcome r of operation op with argument n becomes the state.
Record(op, n, r) ==
    /\ b' = r.b
    /\ last' = IF r.ok THEN [op |-> op, n |-> n, val |-> r.val]
               ELSE [op |-> "panic", n |-> n, val |-> 0]
    /\ UNCHANGED <<regVars, evtVars>>

Running == last.op # "panic"

ReadBits ==
    /\ Running
    /\ \E n \in 0..MaxBits : Record("readBits", n, readBits(b, n))

ReadBits1 ==
    /\ Running
    /\ Record("readBits1", 1, readBits1(b))

ReadBits8 ==
    /\ Running
    /\ Record("readBits8", 8, readBits8(b))

ReadAligned ==
    /\ Running
    /\ \E n \in 0..MaxBytes : Record("readAligned", n, readAligned(b, n))

ReadUnaligned ==
    /\ Running
    /\ \E n \in 0..MaxBytes : Record("readUnaligned", n, readUnaligned(b, n))

ByteAlign ==
    /\ Running
    /\ Record("byteAlign", 0, Ret(0, byteAlign(b)))

NextBits ==
    \/ ReadBits
    \/ ReadBits1
    \/ ReadBits8
    \/ ReadAligned
    \/ ReadUnaligned
    \/ ByteAlign

SpecBits == InitBits /\ [][NextBits]_vars

(***************************************************************************)
(* readBits on its int64 carrier.  The value of readBits is an int64 and   *)
(* widths go up to 64, so here the value is the vector of its WordBits     *)
(* bits, bit 0 the least significant and bit WordBits - 1 the sign;        *)
(* shifts drop the bits pushed past the sign bit, as Go's << does.         *)
(* The buffer and its byte-sized cache are as above.                       *)
(***************************************************************************)
WordBits == 64

Word == 0..(WordBits - 1)

\* int64(0)
Zero64 == [i \in Word |-> 0]

\* int64(x) of a byte x
FromByte64(x) == [i \in Word |-> IF i < 8 THEN (x \div Pow2(i)) % 2 ELSE 0]

\* v << k on an int64
Shl64(v, k) == [i \in Word |-> IF i >= k THEN v[i - k] ELSE 0]

\* v | w on int64s
Or64(v, w) == [i \in Word |-> IF v[i] = 1 \/ w[i] = 1 THEN 1 ELSE 0]

\* v < 0
Negative64(v) == v[WordBits - 1] = 1

\* if b.cacheBits == 0 { b.cache = b.contents[b.idx]; b.idx++; b.cacheBits = 8 }
\* (bitpackedbuff.go:140-144, 172-176), on a buffer with a byte to fetch
Fetch(bb) ==
    IF bb.cacheBits = 0
    THEN [bb EXCEPT !.cache = bb.contents[bb.idx + 1], !.idx = @ + 1, !.cacheBits = 8]
    ELSE bb

\* The switch of readBitsBig (bitpackedbuff.go:147-163) and its loop.
RECURSIVE readBitsBig64Loop(_, _, _)
RECURSIVE readBitsBig64Switch(_, _, _)
readBitsBig64Switch(b1, n, value) ==
    IF n > b1.cacheBits
    THEN readBitsBig64Loop([b1 EXCEPT !.cacheBits = 0], n - b1.cacheBits,
                           Or64(Shl64(value, b1.cacheBits), FromByte64(b1.cache)))
    ELSE IF n < b1.cacheBits
    THEN Ret(Or64(Shl64(value, n), FromByte64(Mask(b1.cache, n))),
             [b1 EXCEPT !.cacheBits = @ - n, !.cache = Shr(@, n)])
    ELSE Ret(Or64(Shl64(value, n), FromByte64(b1.cache)), [b1 EXCEPT !.cacheBits = 0])

readBitsBig64Loop(bb, n, value) ==
    IF bb.cacheBits = 0 /\ ~InRange(bb) THEN Panic(bb)
    ELSE readBitsBig64Switch(Fetch(bb), n, value)

\* bitpackedbuff.go:138-165
readBitsBig64(bb, n) == readBitsBig64Loop(bb, n, Zero64)

\* The switch of readBitsLittle (bitpackedbuff.go:179-196) and its loop.
RECURSIVE readBitsLittle64Loop(_, _, _, _)
RECURSIVE readBitsLittle64Switch(_, _, _, _)
readBitsLittle64Switch(b1, n, value, valueBits) ==
    IF n > b1.cacheBits
    THEN readBitsLittle64Loop([b1 EXCEPT !.cacheBits = 0], n - b1.cacheBits,
                              Or64(value, Shl64(FromByte64(b1.cache), valueBits)),
                              valueBits + b1.cacheBits)
    ELSE IF n < b1.cacheBits
    THEN Ret(Or64(value, Shl64(FromByte64(Mask(b1.cache, n)), valueBits)),
             [b1 EXCEPT !.cacheBits = @ - n, !.cache = Shr(@, n)])
    ELSE Ret(Or64(value, Shl64(FromByte64(b1.cache), valueBits)),
             [b1 EXCEPT !.cacheBits = 0])

readBitsLittle64Loop(bb, n, value, valueBits) ==
    IF bb.cacheBits = 0 /\ ~InRange(bb) THEN Panic(bb)
    ELSE readBitsLittle64Switch(Fetch(bb), n, value, valueBits)

\* readBitsLittle that joins the chunks the big-endian way.
readBitsLittle64Swapped(bb, n) == readBitsBig64(bb, n)

\* bitpackedbuff.go:169-198
readBitsLittle64(bb, n) == readBitsLittle64Loop(bb, n, Zero64, 0)

\* The whole-byte loop of readBitsBigByte (bitpackedbuff.go:121-124).
RECURSIVE readBitsBigByte64Loop(_, _, _)
readBitsBigByte64Loop(bb, n, value) ==
    IF n > 8
    THEN IF ~InRange(bb) THEN [ok |-> FALSE, val |-> value, b |-> bb]
         ELSE readBitsBigByte64Loop([bb EXCEPT !.idx = @ + 1], n - 8,
                                    Or64(Shl64(value, 8),
                                         FromByte64(bb.contents[bb.idx + 1])))
    ELSE [ok |-> TRUE, val |-> value, b |-> bb]

\* bitpackedbuff.go:126-133, w the outcome of the whole-byte loop
readBitsBigByte64Last(w, compBits) ==
    IF ~w.ok \/ ~InRange(w.b) THEN Panic(w.b)
    ELSE Ret(Or64(Shl64(w.val, compBits),
                  FromByte64(Mask(w.b.contents[w.b.idx + 1], compBits))),
             [w.b EXCEPT !.cache = Shr(w.b.contents[w.b.idx + 1], compBits),
                         !.idx = @ + 1])

\* bitpackedbuff.go:116-134
readBitsBigByte64(bb, n) ==
    readBitsBigByte64Last(readBitsBigByte64Loop(bb, n, FromByte64(bb.cache)),
                          8 - bb.cacheBits)

\* The little-endian whole-byte path of readBits (bitpackedbuff.go:99-108).
RECURSIVE readBitsLittleByte64Loop(_, _, _, _)
readBitsLittleByte64Loop(bb, n, i, value) ==
    IF i < n
    THEN IF ~InRange(bb) THEN Panic(bb)
         ELSE readBitsLittleByte64Loop([bb EXCEPT !.idx = @ + 1], n, i + 8,
                                       Or64(value,
                                            Shl64(FromByte64(bb.contents[bb.idx + 1]), i)))
    ELSE Ret(value, bb)

\* readBits without the check of n == 0.
readBits64NoZero(bb, n) ==
    IF bb.bigEndian THEN readBitsBig64(bb, n) ELSE readBitsLittle64(bb, n)

\* bitpackedbuff.go:82-110
readBits64(bb, n) ==
    IF n = 0 THEN Ret(Zero64, bb)
    ELSE IF bb.bigEndian
    THEN IF And(n, 7) = 0 /\ bb.cacheBits # 0
         THEN readBitsBigByte64(bb, n)
         ELSE readBitsBig64(bb, n)
    ELSE IF And(n, 7) = 0 /\ bb.cacheBits = 0
    THEN readBitsLittleByte64Loop(bb, n, 0, Zero64)
    ELSE readBitsLittle64(bb, n)

(***************************************************************************)
(* SpecWide: a bitPackedBuff and the readBits, readBits1 and readBits8     *)
(* calls made on it one after the other, with widths up to WordBits and    *)
(* no byteAlign in between.  last records the latest call and, in used,    *)
(* the number of bits the calls so far were asked for.                     *)
(***************************************************************************)
MaxWideLen == 9

\* A string with high bits set and the start of the package's test buffer.
WideTapes ==
    { << 180, 195, 64, 170, 255, 0, 129, 254, 77, 126, 3, 200 >>,
      << 1, 2, 3, 4, 5, 6, 7, 8, 9, 10, 11, 12 >> }

WideContents ==
    { << >>, << 1, 2, 3, 4 >> } \cup { SubSeq(tape, 1, MaxWideLen) : tape \in WideTapes }

InitWide ==
    /\ \E contents \in WideContents, bigEndian \in BOOLEAN :
          b = NewBuff(contents, bigEndian)
    /\ last = [op |-> "none", n |-> 0, val |-> 0, used |-> 0]
    /\ RegIdle
    /\ EvtIdle

\* The outcome r of operation op asked for n bits becomes the state.
RecordWide(op, n, r) ==
    /\ b' = r.b
    /\ last' = IF r.ok THEN [op |-> op, n |-> n, val |-> r.val, used |-> last.used + n]
               ELSE [op |-> "panic", n |-> n, val |-> 0, used |-> last.used]
    /\ UNCHANGED <<regVars, evtVars>>

WideReadBits ==
    /\ Running
    /\ \E n \in 0..WordBits : RecordWide("readBits", n, readBits64(b, n))

WideReadBits1 ==
    /\ Running
    /\ RecordWide("readBits1", 1, readBits1(b))

WideReadBits8 ==
    /\ Running
    /\ RecordWide("readBits8", 8, readBits8(b))

NextWide ==
    \/ WideReadBits
    \/ WideReadBits1
    \/ WideReadBits8

SpecWide == InitWide /\ [][NextWide]_vars

(***************************************************************************)
(* readVarInt on its int64 accumulator (versioneddec.go:118-131).  data    *)
(* and value are int64s: here value is the vector of its bits, as above.   *)
(***************************************************************************)
\* v >> 1 on an int64: the sign bit is copied in.
Sar64(v) == [i \in Word |-> IF i < WordBits - 1 THEN v[i + 1] ELSE v[WordBits - 1]]

\* -v on an int64: the bits above the lowest 1 are inverted.
Neg64(v) ==
    IF \A i \in Word : v[i] = 0 THEN v
    ELSE [i \in Word |->
            IF \E j \in 0..(i - 1) : v[j] = 1 THEN 1 - v[i] ELSE v[i]]

\* The return statement of readVarInt (versioneddec.go:123-128).
signedOf64(value) == IF value[0] = 1 THEN Neg64(Sar64(value)) ELSE Sar64(value)

\* The loop of readVarInt (versioneddec.go:120-130), data the outcome of
\* b.readBits8().
RECURSIVE readVarInt64Loop(_, _, _)
readVarInt64Loop(data, shift, value) ==
    IF ~data.ok THEN data
    ELSE IF And(data.val, 128) = 0
    THEN Ret(signedOf64(Or64(value, Shl64(FromByte64(And(data.val, 127)), shift))),
             data.b)
    ELSE readVarInt64Loop(readBits8(data.b), shift + 7,
                          Or64(value, Shl64(FromByte64(And(data.val, 127)), shift)))

\* versioneddec.go:118-131
readVarInt64(bb) == readVarInt64Loop(readBits8(bb), 0, Zero64)

(***************************************************************************)
(* SpecVar: readVarInt called once on the bytes an encoder produced for a  *)
(* value, followed by the bytes of what comes next on the wire.  A value   *)
(* is [neg, mag]: its sign and the bits of its magnitude.  The encoder     *)
(* emits 2 * mag + sign in groups of 7 bits, low-order group first, bit 7  *)
(* of a byte set when more groups follow.                                  *)
(***************************************************************************)
MaxSmall == 70

\* 2^k and 2^k - 1
PowerOfTwo64(k) == [i \in Word |-> IF i = k THEN 1 ELSE 0]

Ones64(k) == [i \in Word |-> IF i < k THEN 1 ELSE 0]

\* Values v with -2^62 <= v < 2^62: the small ones, 150 of the format's
\* examples, and the powers of two and their predecessors up to the ends.
VarValues ==
    { [neg |-> s, mag |-> [i \in Word |-> IF i < 31 THEN (x \div Pow2(i)) % 2 ELSE 0]] :
        s \in BOOLEAN, x \in (1..MaxSmall) \cup {150} }
    \cup { [neg |-> s, mag |-> PowerOfTwo64(k)] : s \in BOOLEAN, k \in 0..(WordBits - 3) }
    \cup { [neg |-> s, mag |-> Ones64(k)] : s \in BOOLEAN, k \in 1..(WordBits - 2) }
    \cup { [neg |-> FALSE, mag |-> Zero64], [neg |-> TRUE, mag |-> PowerOfTwo64(WordBits - 2)] }

\* The int64 of a value.
ToInt64(v) == IF v.neg THEN Neg64(v.mag) ELSE v.mag

\* 2 * mag + sign
VarAcc(v) == [i \in Word |-> IF i = 0 THEN (IF v.neg THEN 1 ELSE 0) ELSE v.mag[i - 1]]

\* Group g (from 0) of an accumulator: its bits 7g .. 7g+6.
VarGroup(acc, g) ==
    IF 7 * g >= WordBits THEN 0
    ELSE LET bits == [t \in 0..6 |-> IF 7 * g + t < WordBits THEN acc[7 * g + t] ELSE 0]
         IN  bits[0] + 2 * bits[1] + 4 * bits[2] + 8 * bits[3] + 16 * bits[4]
             + 32 * bits[5] + 64 * bits[6]

\* The number of groups up to the last non-zero one, at least 1.
VarGroups(acc) ==
    IF \A i \in Word : acc[i] = 0 THEN 1
    ELSE 1 + ((CHOOSE i \in Word : acc[i] = 1 /\ \A j \in Word : j > i => acc[j] = 0) \div 7)

\* The bytes of a value.
encodeVarInt(v) ==
    [j \in 1..VarGroups(VarAcc(v)) |->
        VarGroup(VarAcc(v), j - 1) + (IF j < VarGroups(VarAcc(v)) THEN 128 ELSE 0)]

\* What follows the varint on the wire.
VarTails == { << >>, << 2 >>, << 129, 0 >> }

InitVar ==
    /\ \E v \in VarValues, tail \in VarTails :
          /\ stream = [kind |-> "varint", value |-> v, tail |-> tail]
          /\ b = NewBuff(encodeVarInt(v) \o tail, TRUE)
    /\ last = [op |-> "none", n |-> 0, val |-> Zero64]
    /\ events = << >>
    /\ loop = 0
    /\ err = ""
    /\ evpc = "done"
    /\ RegIdle

\* The call readVarInt(b).
ReadVarInt ==
    /\ last.op = "none"
    /\ b' = readVarInt64(b).b
    /\ last' = [op |-> IF readVarInt64(b).ok THEN "readVarInt" ELSE "panic", n |-> 0,
                val |-> readVarInt64(b).val]
    /\ UNCHANGED <<regVars, evtVars>>

SpecVar == InitVar /\ [][ReadVarInt]_vars

(***************************************************************************)
(* Decoded values.  Go's interface{} results are records tagged with the   *)
(* dynamic type in k, so that a type assertion is a test of k:             *)
(*   nil, int64, bool, string (its bytes), Struct (a map from field names  *)
(*   to values), []interface{} and BitArr.                                 *)
(***************************************************************************)
NilV == [k |-> "nil"]

IntV(i) == [k |-> "int64", i |-> i]

BoolV(t) == [k |-> "bool", t |-> t]

\* string(bytes)
StringV(bytes) == [k |-> "string", bytes |-> bytes]

\* A string that is a name of the schema, kept as text.
NameV(s) == [k |-> "string", name |-> s]

StructV(m) == [k |-> "Struct", m |-> m]

ArrV(a) == [k |-> "[]interface{}", a |-> a]

BitArrV(count, data) == [k |-> "BitArr", Count |-> count, Data |-> data]

\* Struct{}
EmptyMap == [x \in {} |-> NilV]

\* s[name] = v
Put(s, name, v) == (name :> v) @@ s

\* A copy of s2 into s that keeps the entries s has.
PutAllKeepingOld(s, s2) == s @@ s2

\* for k, v := range s2 { s[k] = v }
PutAll(s, s2) == s2 @@ s

\* Go's integer division, which truncates toward zero.
GoDiv(x, y) == IF x >= 0 THEN x \div y ELSE -((-x) \div y)

(***************************************************************************)
(* Type infos (versioneddec.go:185-233).  Type ids and Go slice indices    *)
(* count from 0, sequences here from 1: typeInfos[typeid] is               *)
(* typeInfos[typeid + 1].                                                  *)
(***************************************************************************)
s2pInt == 0

s2pStruct == 1

s2pChoice == 2

s2pArr == 3

s2pBitArr == 4

s2pBlob == 5

s2pOptional == 6

s2pBool == 7

s2pFourCC == 8

s2pNull == 9

\* versioneddec.go:209-215
Field(name, typeid, tag) ==
    [name |-> name, typeid |-> typeid, tag |-> tag, isNameParent |-> name = "__parent"]

\* versioneddec.go:218-233, the fields a type does not use at their zero value
TypeInfo(s2pType, offset64, bits, fields, typeid) ==
    [s2pType |-> s2pType, offset64 |-> offset64, bits |-> bits, fields |-> fields,
     typeid |-> typeid]

IntType(offset, bits) == TypeInfo(s2pInt, offset, bits, << >>, 0)

StructType(fields) == TypeInfo(s2pStruct, 0, 0, fields, 0)

ChoiceType(offset, bits, fields) == TypeInfo(s2pChoice, offset, bits, fields, 0)

ArrType(offset, bits, typeid) == TypeInfo(s2pArr, offset, bits, << >>, typeid)

BitArrType(offset, bits) == TypeInfo(s2pBitArr, offset, bits, << >>, 0)

BlobType(offset, bits) == TypeInfo(s2pBlob, offset, bits, << >>, 0)

OptionalType(typeid) == TypeInfo(s2pOptional, 0, 0, << >>, typeid)

BoolType == TypeInfo(s2pBool, 0, 0, << >>, 0)

FourCCType == TypeInfo(s2pFourCC, 0, 0, << >>, 0)

NullType == TypeInfo(s2pNull, 0, 0, << >>, 0)

\* d.typeInfos[typeid] does not panic
HasType(typeInfos, typeid) == typeid >= 0 /\ typeid < Len(typeInfos)

(***************************************************************************)
(* bitPackedDec (rep/details.go:253-343).  instance gives [ok, val, b] as the     *)
(* reads of the buffer do.                                                 *)
(***************************************************************************)
\* The results of the reads as decoded values.
AsInt(r) == IF r.ok THEN Ret(IntV(r.val), r.b) ELSE r

AsBool(r) == IF r.ok THEN Ret(BoolV(r.val), r.b) ELSE r

AsString(r) == IF r.ok THEN Ret(StringV(r.val), r.b) ELSE r

\* Struct{name: r.val}
AsStruct(name, r) == IF r.ok THEN Ret(StructV(Put(EmptyMap, name, r.val)), r.b) ELSE r

\* ti.offset64 + r
AddOffset(ti, r) == IF r.ok THEN Ret(ti.offset64 + r.val, r.b) ELSE r

\* rep/details.go:276-278
readInt(ti, bb) == AddOffset(ti, readBits(bb, ti.bits))

RECURSIVE bitPackedInstance(_, _, _)
RECURSIVE bitPackedStruct(_, _, _, _, _)
RECURSIVE bitPackedArr(_, _, _, _, _)

\* The loop over the fields of a struct (rep/details.go:286-303); i is the
\* next field, s the map so far, r the decoded value of field i.
bitPackedStruct(typeInfos, ti, bb, i, s) ==
    LET f == ti.fields[i]
        Stored(r) ==
            IF ~r.ok THEN r
            ELSE IF ~f.isNameParent
            THEN bitPackedStruct(typeInfos, ti, r.b, i + 1, Put(s, f.name, r.val))
            ELSE IF r.val.k = "Struct"
            THEN bitPackedStruct(typeInfos, ti, r.b, i + 1, PutAll(s, r.val.m))
            ELSE IF Len(ti.fields) = 1 THEN r
            ELSE bitPackedStruct(typeInfos, ti, r.b, i + 1, Put(s, f.name, r.val))
    IN  IF i > Len(ti.fields) THEN Ret(StructV(s), bb)
        ELSE Stored(bitPackedInstance(typeInfos, bb, f.typeid))

\* The loop over the elements of an array (rep/details.go:314-316); r is the
\* decoded next element.
bitPackedArr(typeInfos, ti, bb, length, arr) ==
    LET Appended(r) ==
            IF ~r.ok THEN r
            ELSE bitPackedArr(typeInfos, ti, r.b, length, Append(arr, r.val))
    IN  IF Len(arr) = length THEN Ret(ArrV(arr), bb)
        ELSE Appended(bitPackedInstance(typeInfos, bb, ti.typeid))

\* A bit array whose remaining bits go to the high bits of the last byte.
bitPackedBitArrHigh(ti, bb) ==
    LET Remaining(l, whole, r) ==
            IF ~r.ok THEN r
            ELSE Ret(BitArrV(l.val, Append(whole.val,
                                           (r.val * Pow2(8 - (l.val % 8))) % 256)), r.b)
        Whole(l, whole) ==
            IF ~whole.ok THEN whole
            ELSE IF l.val % 8 = 0 THEN Ret(BitArrV(l.val, whole.val), whole.b)
            ELSE Remaining(l, whole, readBits(whole.b, l.val % 8))
        Length(l) ==
            IF ~l.ok THEN l
            ELSE IF l.val < 0 THEN Panic(l.b)
            ELSE Whole(l, readUnaligned(l.b, l.val \div 8))
    IN  Length(readInt(ti, bb))

\* rep/details.go:318-326: l is the length read, whole the whole bytes, r the
\* remaining bits.  Every negative length ends in a panic (of make, or of the
\* index len(buf)-1 of an empty buf).
bitPackedBitArr(ti, bb) ==
    LET Remaining(l, whole, r) ==
            IF ~r.ok THEN r
            ELSE Ret(BitArrV(l.val, Append(whole.val, r.val % 256)), r.b)
        Whole(l, whole) ==
            IF ~whole.ok THEN whole
            ELSE IF l.val % 8 = 0 THEN Ret(BitArrV(l.val, whole.val), whole.b)
            ELSE Remaining(l, whole, readBits(whole.b, l.val % 8))
        Length(l) ==
            IF ~l.ok THEN l
            ELSE IF l.val < 0 THEN Panic(l.b)
            ELSE Whole(l, readUnaligned(l.b, l.val \div 8))
    IN  Length(readInt(ti, bb))

\* rep/details.go:304-310: tag is the tag read.
bitPackedChoice(typeInfos, ti, bb) ==
    LET Tagged(tag) ==
            IF ~tag.ok THEN tag
            ELSE IF tag.val > Len(ti.fields) THEN Ret(NilV, tag.b)
            ELSE IF tag.val < 0 \/ tag.val >= Len(ti.fields) THEN Panic(tag.b)
            ELSE AsStruct(ti.fields[tag.val + 1].name,
                          bitPackedInstance(typeInfos, tag.b,
                                            ti.fields[tag.val + 1].typeid))
    IN  Tagged(readInt(ti, bb))

\* rep/details.go:270-343
bitPackedInstance(typeInfos, bb, typeid) ==
    LET ti == typeInfos[typeid + 1]
        ArrOf(l) ==
            IF ~l.ok THEN l
            ELSE IF l.val < 0 THEN Panic(l.b)
            ELSE bitPackedArr(typeInfos, ti, l.b, l.val, << >>)
        BlobOf(l) == IF ~l.ok THEN l ELSE AsString(readAligned(l.b, l.val))
        OptionalOf(r) ==
            IF ~r.ok THEN r
            ELSE IF r.val THEN bitPackedInstance(typeInfos, r.b, ti.typeid)
            ELSE Ret(NilV, r.b)
    IN  IF ~HasType(typeInfos, typeid) THEN Panic(bb)
        ELSE CASE ti.s2pType = s2pInt -> AsInt(readInt(ti, bb))
               [] ti.s2pType = s2pStruct -> bitPackedStruct(typeInfos, ti, bb, 1, EmptyMap)
               [] ti.s2pType = s2pChoice -> bitPackedChoice(typeInfos, ti, bb)
               [] ti.s2pType = s2pArr -> ArrOf(readInt(ti, bb))
               [] ti.s2pType = s2pBitArr -> bitPackedBitArr(ti, bb)
               [] ti.s2pType = s2pBlob -> BlobOf(readInt(ti, bb))
               [] ti.s2pType = s2pOptional -> OptionalOf(readBits1(bb))
               [] ti.s2pType = s2pBool -> AsBool(readBits1(bb))
               [] ti.s2pType = s2pFourCC -> AsString(readUnaligned(bb, 4))
               [] OTHER -> Ret(NilV, bb)

(***************************************************************************)
(* versionedDec (versioneddec.go).  The varints of the model are at most   *)
(* four bytes long, so the value stays below 2^28.                         *)
(***************************************************************************)
\* The loop of readVarInt (versioneddec.go:120-130); data is the byte read.
RECURSIVE readVarIntLoop(_, _, _)
readVarIntLoop(bb, shift, value) ==
    LET Signed(v) == IF And(v, 1) > 0 THEN -Shr(v, 1) ELSE Shr(v, 1)
        Added(data, v) ==
            IF And(data.val, 128) = 0 THEN Ret(Signed(v), data.b)
            ELSE readVarIntLoop(data.b, shift + 7, v)
        Read(data) ==
            IF ~data.ok THEN data
            ELSE Added(data, Or(value, Shl(And(data.val, 127), shift)))
    IN  Read(readBits8(bb))

\* A read of a varint that takes the whole of it for the magnitude.
readVarIntUnsigned(bb) ==
    IF ~readVarIntLoop(bb, 0, 0).ok THEN readVarIntLoop(bb, 0, 0)
    ELSE Ret(IF readVarIntLoop(bb, 0, 0).val >= 0 THEN 2 * readVarIntLoop(bb, 0, 0).val
             ELSE 1 - 2 * readVarIntLoop(bb, 0, 0).val,
             readVarIntLoop(bb, 0, 0).b)

\* versioneddec.go:118-131
readVarInt(bb) == readVarIntLoop(bb, 0, 0)

RECURSIVE skipInstance(_)
RECURSIVE skipArr(_, _)
RECURSIVE skipStruct(_, _)

\* for i := readVarInt(b); i > 0; i-- { skipInstance(b) }  (versioneddec.go:138-140)
skipArr(bb, i) ==
    LET Skipped(r) == IF ~r.ok THEN r ELSE skipArr(r.b, i - 1)
    IN  IF i <= 0 THEN Ret(NilV, bb) ELSE Skipped(skipInstance(bb))

\* A skip of the fields of a struct that does not read their tags.
RECURSIVE skipStructNoTags(_, _)
skipStructNoTags(bb, i) ==
    LET Skipped(r) == IF ~r.ok THEN r ELSE skipStructNoTags(r.b, i - 1)
    IN  IF i <= 0 THEN Ret(NilV, bb) ELSE Skipped(skipInstance(bb))

\* for i := readVarInt(b); i > 0; i-- { readVarInt(b); skipInstance(b) }
\* (versioneddec.go:153-156)
skipStruct(bb, i) ==
    LET Skipped(r) == IF ~r.ok THEN r ELSE skipStruct(r.b, i - 1)
        Tagged(tag) == IF ~tag.ok THEN tag ELSE Skipped(skipInstance(tag.b))
    IN  IF i <= 0 THEN Ret(NilV, bb) ELSE Tagged(readVarInt(bb))

\* versioneddec.go:134-166: fieldType is the byte read first, n the varint
\* read after it.
skipInstance(bb) ==
    LET SkipArr(n) == IF ~n.ok THEN n ELSE skipArr(n.b, n.val)
        SkipBitArr(n) == IF ~n.ok THEN n ELSE readAligned(n.b, GoDiv(n.val + 7, 8))
        SkipBlob(n) == IF ~n.ok THEN n ELSE readAligned(n.b, n.val)
        SkipChoice(n) == IF ~n.ok THEN n ELSE skipInstance(n.b)
        SkipOptional(r) ==
            IF ~r.ok THEN r
            ELSE IF r.val # 0 THEN skipInstance(r.b)
            ELSE r
        SkipStruct(n) == IF ~n.ok THEN n ELSE skipStruct(n.b, n.val)
        Typed(fieldType) ==
            IF ~fieldType.ok THEN fieldType
            ELSE CASE fieldType.val = 0 -> SkipArr(readVarInt(fieldType.b))
                   [] fieldType.val = 1 -> SkipBitArr(readVarInt(fieldType.b))
                   [] fieldType.val = 2 -> SkipBlob(readVarInt(fieldType.b))
                   [] fieldType.val = 3 -> SkipChoice(readVarInt(fieldType.b))
                   [] fieldType.val = 4 -> SkipOptional(readBits8(fieldType.b))
                   [] fieldType.val = 5 -> SkipStruct(readVarInt(fieldType.b))
                   [] fieldType.val = 6 -> readBits8(fieldType.b)
                   [] fieldType.val = 7 -> readAligned(fieldType.b, 4)
                   [] fieldType.val = 8 -> readAligned(fieldType.b, 8)
                   [] fieldType.val = 9 -> readVarInt(fieldType.b)
                   [] OTHER -> fieldType
    IN  Typed(readBits8(bb))

\* A search that takes the tag for the position of the field.
FieldOfTagByPosition(fields, tag) ==
    IF tag + 1 \in 1..Len(fields) THEN tag + 1 ELSE 0

\* The search of the field with the tag read (versioneddec.go:43-49): the
\* index of the first field with that tag, 0 when there is none.
FieldOfTag(fields, tag) ==
    IF \E i \in 1..Len(fields) : fields[i].tag = tag
    THEN CHOOSE i \in 1..Len(fields) :
            /\ fields[i].tag = tag
            /\ \A j \in 1..(i - 1) : fields[j].tag # tag
    ELSE 0

RECURSIVE versionedInstance(_, _, _)
RECURSIVE versionedStruct(_, _, _, _, _, _)
RECURSIVE versionedArr(_, _, _, _, _)

\* The loop over the fields on the wire (versioneddec.go:41-70); i counts the
\* fields read, s is the map so far, tag the tag read, f the field found for
\* it and r its decoded value.
versionedStruct(typeInfos, ti, bb, length, i, s) ==
    LET Skipped(sk) ==
            IF ~sk.ok THEN sk
            ELSE versionedStruct(typeInfos, ti, sk.b, length, i + 1, s)
        Stored(f, r) ==
            IF ~r.ok THEN r
            ELSE IF ~f.isNameParent
            THEN versionedStruct(typeInfos, ti, r.b, length, i + 1, Put(s, f.name, r.val))
            ELSE IF r.val.k = "Struct"
            THEN versionedStruct(typeInfos, ti, r.b, length, i + 1, PutAll(s, r.val.m))
            ELSE IF Len(ti.fields) = 1 THEN r
            ELSE versionedStruct(typeInfos, ti, r.b, length, i + 1, Put(s, f.name, r.val))
        Found(tag, fi) ==
            IF fi = 0 THEN Skipped(skipInstance(tag.b))
            ELSE Stored(ti.fields[fi],
                        versionedInstance(typeInfos, tag.b, ti.fields[fi].typeid))
        Tagged(tag) ==
            IF ~tag.ok THEN tag ELSE Found(tag, FieldOfTag(ti.fields, tag.val))
    IN  IF i >= length THEN Ret(StructV(s), bb)
        ELSE Tagged(readVarInt(bb))

\* The loop over the elements of an array (versioneddec.go:84-86); r is the
\* decoded next element.
versionedArr(typeInfos, ti, bb, length, arr) ==
    LET Appended(r) ==
            IF ~r.ok THEN r
            ELSE versionedArr(typeInfos, ti, r.b, length, Append(arr, r.val))
    IN  IF Len(arr) = length THEN Ret(ArrV(arr), bb)
        ELSE Appended(versionedInstance(typeInfos, bb, ti.typeid))

\* versioneddec.go:74-79: tag is the tag read.
versionedChoice(typeInfos, ti, bb) ==
    LET Tagged(tag) ==
            IF ~tag.ok THEN tag
            ELSE IF tag.val > Len(ti.fields) THEN Ret(NilV, tag.b)
            ELSE IF tag.val < 0 \/ tag.val >= Len(ti.fields) THEN Panic(tag.b)
            ELSE AsStruct(ti.fields[tag.val + 1].name,
                          versionedInstance(typeInfos, tag.b,
                                            ti.fields[tag.val + 1].typeid))
    IN  Tagged(readVarInt(bb))

\* BitArr{Count: n, Data: r}
AsBitArr(n, r) == IF r.ok THEN Ret(BitArrV(n.val, r.val), r.b) ELSE r

\* r != 0
NonZero(r) == IF r.ok THEN Ret(r.val # 0, r.b) ELSE r

\* versioneddec.go:27-113; every type but null first reads the byte of the
\* field type and drops it: fieldType is that read, n the varint after it.
versionedInstance(typeInfos, bb, typeid) ==
    LET ti == typeInfos[typeid + 1]
        StructOf(n) ==
            IF ~n.ok THEN n
            ELSE versionedStruct(typeInfos, ti, n.b, n.val, 0, EmptyMap)
        ArrOf(n) ==
            IF ~n.ok THEN n
            ELSE IF n.val < 0 THEN Panic(n.b)
            ELSE versionedArr(typeInfos, ti, n.b, n.val, << >>)
        BitArrOf(n) ==
            IF ~n.ok THEN n ELSE AsBitArr(n, readAligned(n.b, GoDiv(n.val + 7, 8)))
        BlobOf(n) == IF ~n.ok THEN n ELSE AsString(readAligned(n.b, n.val))
        OptionalOf(r) ==
            IF ~r.ok THEN r
            ELSE IF r.val # 0 THEN versionedInstance(typeInfos, r.b, ti.typeid)
            ELSE Ret(NilV, r.b)
        Typed(fieldType) ==
            IF ~fieldType.ok THEN fieldType
            ELSE CASE ti.s2pType = s2pInt -> AsInt(readVarInt(fieldType.b))
                   [] ti.s2pType = s2pStruct -> StructOf(readVarInt(fieldType.b))
                   [] ti.s2pType = s2pChoice -> versionedChoice(typeInfos, ti, fieldType.b)
                   [] ti.s2pType = s2pArr -> ArrOf(readVarInt(fieldType.b))
                   [] ti.s2pType = s2pBitArr -> BitArrOf(readVarInt(fieldType.b))
                   [] ti.s2pType = s2pBlob -> BlobOf(readVarInt(fieldType.b))
                   [] ti.s2pType = s2pOptional -> OptionalOf(readBits8(fieldType.b))
                   [] ti.s2pType = s2pBool -> AsBool(NonZero(readBits8(fieldType.b)))
                   [] ti.s2pType = s2pFourCC -> AsString(readAligned(fieldType.b, 4))
    IN  IF ~HasType(typeInfos, typeid) THEN Panic(bb)
        ELSE IF ti.s2pType \notin s2pInt..s2pFourCC THEN Ret(NilV, bb)
        ELSE Typed(readBits8(bb))

(***************************************************************************)
(* The decoders on single values: versionedDec.instance, skipInstance and  *)
(* bitPackedDec.instance, each applied once to a buffer that starts with a *)
(* value of a type of DecTypeInfos.                                        *)
(***************************************************************************)
\* The types of the values: the simple ones, a choice of three variants,
\* structs whose tags are not the positions of their fields, a struct of
\* nested values, a struct of the single field __parent and a choice of two
\* variants; then a struct #12 and the structs that have it or an integer
\* as their __parent, alone and among other fields, a bit array whose
\* length is of 6 bits, an optional Bool, a struct of two integers and a
\* struct with a blob.
DecTypeInfos ==
    << IntType(0, 7),                                                    \* #0
       BoolType,                                                         \* #1
       FourCCType,                                                       \* #2
       BlobType(0, 3),                                                   \* #3
       BitArrType(0, 4),                                                 \* #4
       OptionalType(0),                                                  \* #5
       ArrType(0, 2, 1),                                                 \* #6
       ChoiceType(0, 2, << Field("None", 0, 0), Field("Flag", 1, 1),
                           Field("Data", 3, 2) >>),                      \* #7
       StructType(<< Field("x", 0, 2), Field("y", 1, 0),
                     Field("z", 7, 5) >>),                               \* #8
       StructType(<< Field("s", 8, 0), Field("o", 5, 1), Field("a", 6, 2),
                     Field("f", 2, 3), Field("bits", 4, 4) >>),          \* #9
       StructType(<< Field("__parent", 0, 0) >>),                        \* #10
       ChoiceType(0, 2, << Field("None", 0, 0), Field("Flag", 1, 1) >>),    \* #11
       StructType(<< Field("a", 0, 0), Field("b", 1, 1) >>),             \* #12
       StructType(<< Field("__parent", 12, 0) >>),                       \* #13
       StructType(<< Field("b", 0, 0), Field("__parent", 12, 1),
                     Field("a", 1, 2) >>),                               \* #14
       StructType(<< Field("__parent", 0, 0), Field("c", 1, 1) >>),      \* #15
       BitArrType(0, 6),                                                 \* #16
       OptionalType(1),                                                  \* #17
       StructType(<< Field("field1", 0, 1), Field("field2", 0, 2) >>),   \* #18
       StructType(<< Field("n", 0, 0), Field("name", 3, 1),
                     Field("ok", 1, 2) >>) >>                            \* #19

\* A value on the wire: t its kind, n its number (the integer, the count of
\* bits, the tag of a choice), bytes its raw bytes and kids the values in it,
\* each with the tag written before it (0 where the format has none).
W(t, n, bytes, kids) == [t |-> t, n |-> n, bytes |-> bytes, kids |-> kids]

Kid(tag, x) == [tag |-> tag, x |-> x]

\* The bytes readVarInt reads n from.
wireVarInt(n) ==
    encodeVarInt([neg |-> n < 0,
                  mag |-> [i \in Word |->
                              IF i < 31 THEN ((IF n < 0 THEN -n ELSE n) \div Pow2(i)) % 2
                              ELSE 0]])

RECURSIVE wireBytes(_)
RECURSIVE wireKids(_, _, _)

\* The bytes of the values kids[i..], each after its tag when tagged.
wireKids(kids, i, tagged) ==
    IF i > Len(kids) THEN << >>
    ELSE (IF tagged THEN wireVarInt(kids[i].tag) ELSE << >>)
         \o wireBytes(kids[i].x) \o wireKids(kids, i + 1, tagged)

\* The bytes of a value: the byte of its field type, as skipInstance tells
\* them apart (versioneddec.go:136-165), then what that case reads.
wireBytes(x) ==
    CASE x.t = "array"    -> << 0 >> \o wireVarInt(Len(x.kids)) \o wireKids(x.kids, 1, FALSE)
      [] x.t = "bitarray" -> << 1 >> \o wireVarInt(x.n) \o x.bytes
      [] x.t = "blob"     -> << 2 >> \o wireVarInt(Len(x.bytes)) \o x.bytes
      [] x.t = "choice"   -> << 3 >> \o wireVarInt(x.n) \o wireKids(x.kids, 1, FALSE)
      [] x.t = "optional" -> << 4, Len(x.kids) >> \o wireKids(x.kids, 1, FALSE)
      [] x.t = "struct"   -> << 5 >> \o wireVarInt(Len(x.kids)) \o wireKids(x.kids, 1, TRUE)
      [] x.t = "u8"       -> << 6, x.n >>
      [] x.t = "u32"      -> << 7 >> \o x.bytes
      [] x.t = "u64"      -> << 8 >> \o x.bytes
      [] x.t = "vint"     -> << 9 >> \o wireVarInt(x.n)

\* The values of the simple types.
IntWires == { W("vint", n, << >>, << >>) : n \in {0, 1, -1, 64, -150} }

BoolWires == { W("u8", n, << >>, << >>) : n \in {0, 1} }

FourCCWires == { W("u32", 0, << 83, 50, 77, 65 >>, << >>) }

BlobWires == { W("blob", 0, bytes, << >>) : bytes \in { << >>, << 97, 98 >> } }

BitArrWires ==
    { W("bitarray", 0, << >>, << >>), W("bitarray", 1, << 1 >>, << >>),
      W("bitarray", 9, << 255, 1 >>, << >>) }

U64Wires == { W("u64", 0, << 1, 2, 3, 4, 5, 6, 7, 8 >>, << >>) }

OptionalWires ==
    { W("optional", 0, << >>, << >>) }
    \cup { W("optional", 0, << >>, << Kid(0, x) >>) : x \in IntWires }

MaxArrLen == 2

ArrWires ==
    { W("array", 0, << >>, [i \in 1..k |-> Kid(0, f[i])]) :
        f \in [1..MaxArrLen -> BoolWires], k \in 0..MaxArrLen }

\* The values of the choice #7 whose tag is one of a variant.
ChoiceWires ==
    { W("choice", 0, << >>, << Kid(0, x) >>) : x \in {W("vint", 64, << >>, << >>)} }
    \cup { W("choice", 1, << >>, << Kid(0, x) >>) : x \in BoolWires }
    \cup { W("choice", 2, << >>, << Kid(0, x) >>) : x \in BlobWires }

\* Choices whose tag is the number of the variants of #7 and more.
MaxTag == 4

StrayChoiceWires ==
    { W("choice", tag, << >>, << Kid(0, W("u8", 1, << >>, << >>)) >>) :
        tag \in (2..MaxTag) \cup {70} }

\* The sequences of distinct elements of S.
Arrangements(S) ==
    { s \in UNION { [1..k -> S] : k \in 0..Cardinality(S) } :
        \A i, j \in DOMAIN s : i # j => s[i] # s[j] }

\* The (tag, value) pairs of a struct of #8: one of each field, and two of
\* tags #8 does not have.
Pairs8 ==
    { Kid(2, W("vint", -150, << >>, << >>)),
      Kid(0, W("u8", 1, << >>, << >>)),
      Kid(5, W("choice", 2, << >>, << Kid(0, W("blob", 0, << 97, 98 >>, << >>)) >>)),
      Kid(7, W("u64", 0, << 1, 2, 3, 4, 5, 6, 7, 8 >>, << >>)),
      Kid(9, W("struct", 0, << >>,
               << Kid(1, W("array", 0, << >>, << Kid(0, W("u32", 0, << 1, 2, 3, 4 >>, << >>)) >>)),
                  Kid(0, W("optional", 0, << >>, << Kid(0, W("bitarray", 9, << 255, 1 >>, << >>)) >>))
               >>)) }

Struct8Wires == { W("struct", 0, << >>, kids) : kids \in Arrangements(Pairs8) }

\* Structs of #9, of every field one value.
Struct9Wires ==
    { W("struct", 0, << >>,
        << Kid(1, o), Kid(0, W("struct", 0, << >>, << Kid(5, c), Kid(2, i) >>)),
           Kid(4, z), Kid(2, a), Kid(3, W("u32", 0, << 83, 50, 77, 65 >>, << >>)) >>) :
        o \in OptionalWires, c \in ChoiceWires, i \in {W("vint", 1, << >>, << >>)},
        z \in BitArrWires, a \in {x \in ArrWires : Len(x.kids) = MaxArrLen} }

Struct10Wires == { W("struct", 0, << >>, << Kid(0, x) >>) : x \in IntWires }

\* A struct of #12.
Struct12Wires ==
    { W("struct", 0, << >>, << Kid(0, W("vint", n, << >>, << >>)),
                               Kid(1, W("u8", t, << >>, << >>)) >>) :
        n \in {1, 64}, t \in {0, 1} }

\* Structs of #13: the __parent, a struct of #12, alone and with a pair of a
\* tag #13 does not have before or after it.
Struct13Wires ==
    { W("struct", 0, << >>, kids) :
        kids \in UNION { { << Kid(0, p) >>, << Kid(0, p), Kid(7, W("u8", 1, << >>, << >>)) >>,
                           << Kid(7, W("u8", 1, << >>, << >>)), Kid(0, p) >> } :
                         p \in Struct12Wires } }

\* Structs of #14: the three pairs in every order.
Struct14Wires ==
    { W("struct", 0, << >>, kids) :
        kids \in UNION { Arrangements({ Kid(0, W("vint", -1, << >>, << >>)), Kid(1, p),
                                        Kid(2, W("u8", 1, << >>, << >>)) }) :
                         p \in Struct12Wires } }

\* Structs of #15: the two pairs in both orders.
Struct15Wires ==
    { W("struct", 0, << >>, kids) :
        kids \in { s \in Arrangements({ Kid(0, W("vint", 64, << >>, << >>)),
                                        Kid(1, W("u8", 1, << >>, << >>)) }) : Len(s) = 2 } }

\* Structs of #10 with a pair of a tag #10 does not have before or after
\* the __parent.
Struct10MoreWires ==
    { W("struct", 0, << >>, kids) :
        kids \in UNION { { << Kid(0, x), Kid(7, W("u8", 1, << >>, << >>)) >>,
                           << Kid(7, W("u8", 1, << >>, << >>)), Kid(0, x) >> } : x \in IntWires } }

\* Structs of #18: field1 alone, and field1 and field2.
Struct18Wires ==
    { W("struct", 0, << >>, << Kid(1, W("vint", 1, << >>, << >>)) >>),
      W("struct", 0, << >>, << Kid(1, W("vint", 1, << >>, << >>)),
                               Kid(2, W("vint", 2, << >>, << >>)) >>) }

\* A value with the type it is decoded as; matches tells that the type
\* describes the value.
WireCase(typeid, x, matches) == [typeid |-> typeid, x |-> x, matches |-> matches]

WireCases ==
    { WireCase(0, x, TRUE) : x \in IntWires }
    \cup { WireCase(1, x, TRUE) : x \in BoolWires }
    \cup { WireCase(2, x, TRUE) : x \in FourCCWires }
    \cup { WireCase(3, x, TRUE) : x \in BlobWires }
    \cup { WireCase(4, x, TRUE) : x \in BitArrWires }
    \cup { WireCase(5, x, TRUE) : x \in OptionalWires }
    \cup { WireCase(6, x, TRUE) : x \in ArrWires }
    \cup { WireCase(7, x, TRUE) : x \in ChoiceWires }
    \cup { WireCase(8, x, TRUE) : x \in Struct8Wires }
    \cup { WireCase(9, x, TRUE) : x \in Struct9Wires }
    \cup { WireCase(10, x, TRUE) : x \in Struct10Wires }
    \cup { WireCase(11, x, x.n < 2) : x \in { y \in ChoiceWires : y.n < 2 } \cup StrayChoiceWires }
    \cup { WireCase(7, x, FALSE) : x \in { y \in StrayChoiceWires : y.n > 2 } }
    \cup { WireCase(-1, x, FALSE) : x \in U64Wires }
    \cup { WireCase(12, x, TRUE) : x \in Struct12Wires }
    \cup { WireCase(13, x, TRUE) : x \in Struct13Wires }
    \cup { WireCase(14, x, TRUE) : x \in { y \in Struct14Wires : Len(y.kids) = 3 } }
    \cup { WireCase(15, x, TRUE) : x \in Struct15Wires }
    \cup { WireCase(10, x, FALSE) : x \in Struct10MoreWires }
    \cup { WireCase(18, x, TRUE) : x \in Struct18Wires }

\* What follows the value in the buffer.
WireTails == { << >>, << 9, 2 >>, << 4, 9, 4 >> }

\* First bytes whose low 6 bits are the length of a bit array (10, 17, 24,
\* 27, 3, 0 and 8) and whose high 2 bits are its first bits.
BitArrHeads == {138, 81, 216, 27, 131, 0, 72}

\* The contents the bit-packed decoder reads from: the tag of a choice is in
\* the bits of the first byte.
BitContents ==
    { << x, y, 3 >> : x \in (0..7) \cup {180, 255}, y \in {0, 77, 255} }
    \cup { << x, y, 180, 77, 255 >> : x \in BitArrHeads, y \in {244, 11} }

\* The types the bit-packed decoder is called with: the choices, the
\* structs with a __parent and the bit array.
BitTypes == {7, 11, 10, 13, 14, 15, 16, 17}

\* The inputs of one byte, which only the optional Bool is decoded from.
OneByteContents == { << x >> : x \in {192, 64, 0, 3, 1, 2} }

InitDec ==
    /\ \/ \E c \in WireCases, tail \in WireTails :
             /\ stream = [kind |-> "wire", typeid |-> c.typeid, x |-> c.x,
                          matches |-> c.matches, tail |-> tail]
             /\ b = NewBuff(wireBytes(c.x) \o tail, TRUE)
       \/ \E contents \in BitContents \cup OneByteContents, typeid \in BitTypes :
             /\ Len(contents) = 1 => typeid = 17
             /\ stream = [kind |-> "bits", typeid |-> typeid, x |-> W("choice", 0, << >>, << >>),
                          matches |-> FALSE, tail |-> contents]
             /\ b = NewBuff(contents, TRUE)
    /\ last = [op |-> "none", n |-> 0, val |-> NilV]
    /\ events = << >>
    /\ loop = 0
    /\ err = ""
    /\ evpc = "done"
    /\ RegIdle

\* What the call leaves in last: the result r of op, a panic when r is one.
Called(op, typeid, r) ==
    [op |-> IF r.ok THEN op ELSE "panic", n |-> typeid, val |-> IF r.ok THEN r.val ELSE NilV]

\* d.instance(typeid) of a versionedDec (versioneddec.go:27)
DecodeVersioned ==
    /\ last.op = "none"
    /\ stream.kind = "wire"
    /\ stream.typeid >= 0
    /\ b' = versionedInstance(DecTypeInfos, b, stream.typeid).b
    /\ last' = Called("versionedDec", stream.typeid,
                      versionedInstance(DecTypeInfos, b, stream.typeid))
    /\ UNCHANGED <<regVars, evtVars>>

\* skipInstance(b) (versioneddec.go:134); val tells that it returned.
SkipWire ==
    /\ last.op = "none"
    /\ stream.kind = "wire"
    /\ b' = skipInstance(b).b
    /\ last' = [op |-> "skipInstance", n |-> stream.typeid, val |-> BoolV(skipInstance(b).ok)]
    /\ UNCHANGED <<regVars, evtVars>>

\* d.instance(typeid) of a bitPackedDec (rep/details.go:270)
DecodeBitPacked ==
    /\ last.op = "none"
    /\ stream.kind = "bits"
    /\ b' = bitPackedInstance(DecTypeInfos, b, stream.typeid).b
    /\ last' = Called("bitPackedDec", stream.typeid,
                      bitPackedInstance(DecTypeInfos, b, stream.typeid))
    /\ UNCHANGED <<regVars, evtVars>>

NextDec ==
    \/ DecodeVersioned
    \/ SkipWire
    \/ DecodeBitPacked

SpecDec == InitDec /\ [][NextDec]_vars

(***************************************************************************)
(* DecodeAttributesEvts (protocol.go:313-368), a step for the head of the  *)
(* contents, a step for each pass of its loop and one for its return.      *)
(* The result s is in last.val, scopes in events, the position in evpc.    *)
(***************************************************************************)
\* strconv.FormatInt(n, 10): the characters of the decimal digits of n, '-'
\* before them when n is negative.
RECURSIVE FormatNat(_)
FormatNat(n) == IF n < 10 THEN << 48 + n >> ELSE Append(FormatNat(n \div 10), 48 + (n % 10))

FormatInt(n) == IF n < 0 THEN << 45 >> \o FormatNat(-n) ELSE FormatNat(n)

\* vb[0], vb[3] = vb[3], vb[0]; vb[1], vb[2] = vb[2], vb[1]  (protocol.go:345-346)
reverse4(vb) == << vb[4], vb[3], vb[2], vb[1] >>

\* for i := 3; i >= 0; i-- { if vb[i] == 0 { vb = vb[i+1:]; break } }
\* (protocol.go:347-352): what is after the last zero byte.
stripToLastZero(vb) ==
    IF \A i \in 1..Len(vb) : vb[i] # 0 THEN vb
    ELSE SubSeq(vb, 1 + (CHOOSE i \in 1..Len(vb) : vb[i] = 0 /\ \A j \in (i + 1)..Len(vb) : vb[j] # 0),
                Len(vb))

\* attr (protocol.go:335-353)
attrOf(namespace, attrid, vb) ==
    StructV(Put(Put(Put(EmptyMap, "namespace", IntV(namespace)), "attrid", IntV(attrid)),
                "value", StringV(stripToLastZero(reverse4(vb)))))

\* scopes after scope[strconv.FormatInt(attrid, 10)] = attr, scope being
\* scopes[sattrscope], made when it is not there (protocol.go:355-362).
storeAttr(scopes, attrscope, attrid, attr) ==
    Put(scopes, FormatInt(attrscope),
        StructV(Put(IF FormatInt(attrscope) \in DOMAIN scopes
                    THEN scopes[FormatInt(attrscope)].m ELSE EmptyMap,
                    FormatInt(attrid), attr)))

\* The pass of the loop (protocol.go:334-362) from its reads on: namespace,
\* attrid, attrscope and vb are the reads so far.
attrPassStore(scopes, namespace, attrid, attrscope, vb) ==
    IF ~vb.ok THEN vb
    ELSE Ret(storeAttr(scopes, attrscope.val, attrid.val,
                       attrOf(namespace.val, attrid.val, vb.val)), vb.b)

attrPassValue(scopes, namespace, attrid, attrscope) ==
    IF ~attrscope.ok THEN attrscope
    ELSE attrPassStore(scopes, namespace, attrid, attrscope, readAligned(attrscope.b, 4))

attrPassScope(scopes, namespace, attrid) ==
    IF ~attrid.ok THEN attrid
    ELSE attrPassValue(scopes, namespace, attrid, readBits(attrid.b, 8))

attrPassId(scopes, namespace) ==
    IF ~namespace.ok THEN namespace
    ELSE attrPassScope(scopes, namespace, readBits(namespace.b, 32))

attrPass(scopes, bb) == attrPassId(scopes, readBits(bb, 32))

\* The head (protocol.go:324-330) from its reads on: source is the read of
\* the source, or the buffer as it was when the build has none.
attrHeadCount(s, mapNamespace) ==
    IF ~mapNamespace.ok THEN mapNamespace
    ELSE IF ~readBits(mapNamespace.b, 32).ok THEN readBits(mapNamespace.b, 32)
    ELSE Ret(Put(s, "mapNamespace", IntV(mapNamespace.val)), readBits(mapNamespace.b, 32).b)

attrHeadSource(source) ==
    IF ~source.ok THEN source
    ELSE attrHeadCount(Put(EmptyMap, "source", IntV(source.val)), readBits(source.b, 32))

attrHead(baseBuild, bb) ==
    IF baseBuild >= 17326 THEN attrHeadSource(readBits(bb, 8))
    ELSE attrHeadCount(EmptyMap, readBits(bb, 32))

\* The four bytes of a number below 2^31, the lowest first.
LE32(n) == << n % 256, (n \div 256) % 256, (n \div 65536) % 256, n \div 16777216 >>

\* An attribute of the contents and its bytes.
Attr(namespace, attrid, attrscope, vb) ==
    [namespace |-> namespace, attrid |-> attrid, attrscope |-> attrscope, vb |-> vb]

attrBytes(a) == LE32(a.namespace) \o LE32(a.attrid) \o << a.attrscope >> \o a.vb

RECURSIVE attrsBytes(_)
attrsBytes(attrs) ==
    IF attrs = << >> THEN << >> ELSE attrBytes(Head(attrs)) \o attrsBytes(Tail(attrs))

\* The value bytes as they are in the contents, the last character first:
\* no zero, all zero, zeros at the end (the start once reversed), a zero
\* between two characters and a zero at the start.
AttrValues ==
    { << 110, 109, 117, 72 >>, << 0, 0, 0, 0 >>, << 50, 118, 0, 0 >>, << 49, 0, 0, 0 >>,
      << 67, 66, 0, 65 >>, << 0, 67, 66, 65 >>, << 66, 0, 65, 0 >> }

MaxAttrs == 2

Attrs ==
    { Attr(999, attrid, attrscope, vb) :
        attrid \in {500, 3001}, attrscope \in {1, 16}, vb \in AttrValues }

AttrSeqs == UNION { [1..k -> Attrs] : k \in 0..MaxAttrs }

\* The base builds: one before 17326, 17326 and one after it.
AttrBuilds == {16561, 17326, 38215}

\* The contents of the attributes of a build, with stray bytes after them.
attrContents(baseBuild, attrs, stray) ==
    (IF baseBuild >= 17326 THEN << 4 >> ELSE << >>)
    \o LE32(999) \o LE32(Len(attrs)) \o attrsBytes(attrs) \o stray

InitAttr ==
    /\ \E baseBuild \in AttrBuilds, attrs \in AttrSeqs, stray \in { << >>, << 7 >> },
          empty \in BOOLEAN :
          /\ empty => attrs = << >> /\ stray = << >>
          /\ stream = [kind |-> "attributes", baseBuild |-> baseBuild, attrs |-> attrs,
                       stray |-> stray, empty |-> empty]
          /\ b = NewBuff(IF empty THEN << >> ELSE attrContents(baseBuild, attrs, stray), FALSE)
    /\ last = [op |-> "none", n |-> 0, val |-> StructV(EmptyMap)]
    /\ events = EmptyMap
    /\ loop = 0
    /\ err = ""
    /\ evpc = "call"
    /\ RegIdle

\* The call up to the loop (protocol.go:313-332); empty contents return at
\* once (protocol.go:316-318).
AttrHead ==
    /\ evpc = "call"
    /\ IF Len(b.contents) = 0
       THEN /\ evpc' = "done"
            /\ last' = [last EXCEPT !.op = "DecodeAttributesEvts"]
            /\ UNCHANGED <<b, err>>
       ELSE /\ b' = attrHead(stream.baseBuild, b).b
            /\ IF attrHead(stream.baseBuild, b).ok
               THEN /\ last' = [last EXCEPT !.val = StructV(attrHead(stream.baseBuild, b).val)]
                    /\ evpc' = "loop"
                    /\ err' = err
               ELSE /\ evpc' = "done"
                    /\ err' = "panic"
                    /\ last' = [last EXCEPT !.op = "panic"]
    /\ UNCHANGED <<regVars, stream, events, loop>>

\* One pass of for !bb.EOF() (protocol.go:333-363).
AttrPass ==
    /\ evpc = "loop"
    /\ ~EOF(b)
    /\ b' = attrPass(events, b).b
    /\ IF attrPass(events, b).ok
       THEN /\ events' = attrPass(events, b).val
            /\ loop' = loop + 1
            /\ UNCHANGED <<last, err, evpc>>
       ELSE /\ evpc' = "done"
            /\ err' = "panic"
            /\ last' = [last EXCEPT !.op = "panic"]
            /\ UNCHANGED <<events, loop>>
    /\ UNCHANGED <<regVars, stream>>

\* s["scopes"] = scopes; return s  (protocol.go:364-366)
AttrReturn ==
    /\ evpc = "loop"
    /\ EOF(b)
    /\ last' = [op |-> "DecodeAttributesEvts", n |-> loop,
                val |-> StructV(Put(last.val.m, "scopes", StructV(events)))]
    /\ evpc' = "done"
    /\ UNCHANGED <<regVars, b, stream, events, loop, err>>

NextAttr ==
    \/ AttrHead
    \/ AttrPass
    \/ AttrReturn

SpecAttr == InitAttr /\ [][NextAttr]_vars

(***************************************************************************)
(* DecodeHeader, DecodeDetails and DecodeInitData (protocol.go:265-309),   *)
(* each called once on contents that are the bytes of a root value or the  *)
(* first bytes of them.  The Protocol is the one of DecTypeInfos, the      *)
(* typeid of the root is in stream.                                        *)
(***************************************************************************)
\* v, ok := d.instance(typeid).(Struct); if !ok { return nil }; return v
asStructOrNil(r) ==
    IF ~r.ok THEN r
    ELSE IF r.val.k = "Struct" THEN r
    ELSE Ret(NilV, r.b)

\* protocol.go:266-282; contents[4:] panics on contents shorter than 4.
decodeHeader(typeid, contents) ==
    IF Len(contents) < 4 THEN Panic(NewBuff(contents, TRUE))
    ELSE asStructOrNil(versionedInstance(DecTypeInfos,
                                         NewBuff(SubSeq(contents, 5, Len(contents)), TRUE),
                                         typeid))

\* protocol.go:286-295
decodeDetails(typeid, contents) ==
    asStructOrNil(versionedInstance(DecTypeInfos, NewBuff(contents, TRUE), typeid))

\* protocol.go:299-308
decodeInitData(typeid, contents) ==
    asStructOrNil(bitPackedInstance(DecTypeInfos, NewBuff(contents, TRUE), typeid))

\* The root values of the versioned decoder with their types: structs that
\* hold a blob, a bit array and a four-character code, a struct that ends
\* in a blob, and an integer and a blob, which are no structs.
RootWires ==
    { WireCase(9, x, TRUE) :
        x \in { y \in Struct9Wires :
                  /\ y.kids[1].x.kids # << >> /\ y.kids[1].x.kids[1].x.n = 1
                  /\ y.kids[2].x.kids[1].x.n = 2 /\ y.kids[2].x.kids[1].x.kids[1].x.bytes # << >>
                  /\ y.kids[3].x.n = 9 /\ y.kids[4].x.kids[1].x.n = 1
                  /\ y.kids[4].x.kids[2].x.n = 0 } }
    \cup { WireCase(19, W("struct", 0, << >>, kids), TRUE) :
             kids \in { << Kid(0, W("vint", 1, << >>, << >>)),
                           Kid(1, W("blob", 0, << 97, 98 >>, << >>)),
                           Kid(2, W("u8", 1, << >>, << >>)) >>,
                        << Kid(2, W("u8", 1, << >>, << >>)),
                           Kid(1, W("blob", 0, << 97, 98, 99 >>, << >>)) >> } }
    \cup { WireCase(0, W("vint", 64, << >>, << >>), FALSE),
           WireCase(3, W("blob", 0, << 97, 98 >>, << >>), FALSE) }

\* The root values of the bit-packed decoder, each the bytes of a struct of
\* #19: 7 bits of n, 3 bits of the length of name (the high bit of the first
\* byte and the two low bits of the second), the bytes of name and the byte
\* of ok; and the bytes of an integer, which is no struct.
RootBits ==
    { [typeid |-> 19, full |-> << 5, 2, 97, 98, 1 >>],
      [typeid |-> 19, full |-> << 133, 3, 97, 98, 99, 100, 101, 102, 103, 1 >>],
      [typeid |-> 19, full |-> << 5, 0, 0 >>],
      [typeid |-> 0, full |-> << 77 >>] }

\* 3c 00 00 00, the bytes before the header (protocol.go:272)
HeaderLead == << 60, 0, 0, 0 >>

RootCalls ==
    { [call |-> "DecodeHeader", typeid |-> c.typeid, full |-> HeaderLead \o wireBytes(c.x)] :
        c \in RootWires }
    \cup { [call |-> "DecodeDetails", typeid |-> c.typeid, full |-> wireBytes(c.x)] :
             c \in RootWires }
    \cup { [call |-> "DecodeInitData", typeid |-> c.typeid, full |-> c.full] : c \in RootBits }

InitRoot ==
    /\ \E c \in RootCalls : \E cut \in 0..Len(c.full) :
          stream = [kind |-> "root", call |-> c.call, typeid |-> c.typeid, full |-> c.full,
                    contents |-> SubSeq(c.full, 1, cut)]
    /\ b = NewBuff(<< >>, TRUE)
    /\ last = [op |-> "none", n |-> 0, val |-> NilV]
    /\ events = << >>
    /\ loop = 0
    /\ err = ""
    /\ evpc = "done"
    /\ RegIdle

\* The call returned r, or panicked.
RootCalled(op, r) ==
    /\ b' = r.b
    /\ last' = [op |-> op, n |-> stream.typeid, val |-> IF r.ok THEN r.val ELSE NilV]
    /\ err' = IF r.ok THEN "" ELSE "panic"

DecodeHeader ==
    /\ last.op = "none"
    /\ stream.kind = "root"
    /\ stream.call = "DecodeHeader"
    /\ RootCalled("DecodeHeader", decodeHeader(stream.typeid, stream.contents))
    /\ UNCHANGED <<regVars, stream, events, loop, evpc>>

DecodeDetails ==
    /\ last.op = "none"
    /\ stream.kind = "root"
    /\ stream.call = "DecodeDetails"
    /\ RootCalled("DecodeDetails", decodeDetails(stream.typeid, stream.contents))
    /\ UNCHANGED <<regVars, stream, events, loop, evpc>>

DecodeInitData ==
    /\ last.op = "none"
    /\ stream.kind = "root"
    /\ stream.call = "DecodeInitData"
    /\ RootCalled("DecodeInitData", decodeInitData(stream.typeid, stream.contents))
    /\ UNCHANGED <<regVars, stream, events, loop, evpc>>

NextRoot ==
    \/ DecodeHeader
    \/ DecodeDetails
    \/ DecodeInitData

SpecRoot == InitRoot /\ [][NextRoot]_vars

(***************************************************************************)
(* The Protocol the event streams are decoded with.  Its type infos start  *)
(* as the schemas do (versioneddec.go:241: type #0 is ('_int',[(0,7)])):   *)
(* the event ids, the gameloop delta NNet.SVarUint32 and the user id       *)
(* NNet.Replay.SGameUserId; the types after them are event bodies.  Field  *)
(* names of structs are as parseTypeInfo leaves them, without the "m_".    *)
(***************************************************************************)
TypeInfos ==
    << IntType(0, 7),                                     \* #0
       IntType(0, 4),                                     \* #1
       IntType(0, 5),                                     \* #2
       IntType(0, 6),                                     \* #3
       IntType(0, 14),                                    \* #4
       IntType(0, 22),                                    \* #5
       IntType(0, 32),                                    \* #6
       ChoiceType(0, 2, << Field("m_uint6", 3, 0), Field("m_uint14", 4, 1),
                           Field("m_uint22", 5, 2), Field("m_uint32", 6, 3) >>),   \* #7
       StructType(<< Field("userId", 2, -1) >>),          \* #8
       StructType(<< >>),                                 \* #9
       BoolType,                                          \* #10
       StructType(<< Field("flag", 10, -2), Field("count", 0, -1) >>),      \* #11
       StructType(<< Field("unitTag", 0, 0), Field("isAlive", 10, 1) >>),   \* #12
       BlobType(0, 3),                                    \* #13
       StructType(<< Field("text", 13, -1) >>) >>         \* #14

\* The event types as the schema lists them: id -> type id and name, the
\* name with its prefix and postfix stripped (protocol.go:188).
GameEventTypes ==
    (5 :> [typeid |-> 9, Name |-> "UserFinishedLoadingSync"]) @@
    (7 :> [typeid |-> 11, Name |-> "UserOptions"]) @@
    (8 :> [typeid |-> 14, Name |-> "TriggerChatMessage"])

MessageEventTypes ==
    (0 :> [typeid |-> 11, Name |-> "Chat"]) @@
    (2 :> [typeid |-> 9, Name |-> "LoadingProgress"])

TrackerEventTypes ==
    (0 :> [typeid |-> 9, Name |-> "PlayerStats"]) @@
    (2 :> [typeid |-> 12, Name |-> "UnitBorn"])

\* EvtType{}
ZeroEvtType == [Id |-> 0, Name |-> "", typeid |-> 0]

\* The slice made of the map em (protocol.go:195-200): index is event id, the
\* ids the schema does not list hold the zero EvtType.
parseEvtTypes(em) ==
    LET maxEid == CHOOSE x \in DOMAIN em : \A y \in DOMAIN em : y <= x
    IN  [i \in 1..(maxEid + 1) |->
            IF (i - 1) \in DOMAIN em
            THEN [Id |-> i - 1, Name |-> em[i - 1].Name, typeid |-> em[i - 1].typeid]
            ELSE ZeroEvtType]

\* protocol.go:42-63
Proto ==
    [typeInfos            |-> TypeInfos,
     gameEvtTypes         |-> parseEvtTypes(GameEventTypes),
     gameEventidTypeid    |-> 0,
     messageEvtTypes      |-> parseEvtTypes(MessageEventTypes),
     messageEventidTypeid |-> 1,
     trackerEvtTypes      |-> parseEvtTypes(TrackerEventTypes),
     trackerEventidTypeid |-> 2,
     svaruint32Typeid     |-> 7,
     replayUseridTypeid   |-> 8]

(***************************************************************************)
(* decodeEvts (protocol.go:397-448).                                       *)
(***************************************************************************)
\* d.instance(typeid) through the decoder interface (protocol.go:371-375)
instance(d, typeInfos, bb, typeid) ==
    IF d = "versionedDec"
    THEN versionedInstance(typeInfos, bb, typeid)
    ELSE bitPackedInstance(typeInfos, bb, typeid)

\* The sum of the values of the map m.
RECURSIVE SumValues(_)
SumValues(m) ==
    IF DOMAIN m = {} THEN 0
    ELSE LET key == CHOOSE x \in DOMAIN m : TRUE
         IN  m[key].i + SumValues([x \in DOMAIN m \ {key} |-> m[x]])

\* The loop counter set to the delta instead of advanced by it.
addDeltaReset(lp, delta) == SumValues(delta)

\* for _, v := range delta { loop += v.(int64) }  (protocol.go:420-422)
addDelta(lp, delta) == lp + SumValues(delta)

\* An id without a descriptor taken for the first id of the table.
evtTypeAtClamped(etypes, evtid) ==
    IF evtid < 0 \/ evtid >= Len(etypes)
    THEN [ok |-> TRUE, val |-> etypes[1]]
    ELSE [ok |-> TRUE, val |-> etypes[evtid + 1]]

\* &etypes[evtid] (protocol.go:429): panics when evtid is not an index.
evtTypeAt(etypes, evtid) ==
    IF evtid < 0 \/ evtid >= Len(etypes)
    THEN [ok |-> FALSE, val |-> ZeroEvtType]
    ELSE [ok |-> TRUE, val |-> etypes[evtid + 1]]

\* The annotations with userid put in whether or not it was decoded.
annotateAlwaysUserid(s, evtid, evtType, lp, decUserId, userid) ==
    Put(Put(Put(Put(s, "id", IntV(evtid)), "name", NameV(evtType.Name)),
            "loop", IntV(lp)), "userid", userid)

\* protocol.go:434-439
annotate(s, evtid, evtType, lp, decUserId, userid) ==
    LET s1 == Put(Put(Put(s, "id", IntV(evtid)), "name", NameV(evtType.Name)),
                  "loop", IntV(lp))
    IN  IF decUserId THEN Put(s1, "userid", userid) ELSE s1

\* The statements of the loop body that can panic.
AtDelta == "d.instance(deltaTypeid).(Struct)"

AtLoop == "v.(int64)"

AtUserid == "d.instance(useridTypeid)"

AtEvtid == "d.instance(evtidTypeid).(int64)"

AtEvtType == "&etypes[evtid]"

AtBody == "d.instance(evtType.typeid).(Struct)"

\* The loop body panicked at statement at.
Failed(at, bb, lp) == [ok |-> FALSE, at |-> at, b |-> bb, loop |-> lp, evt |-> NilV]

\* The arguments of decodeEvts and the protocol, as the loop body sees them.
LoopArgs(p, d, evtidTypeid, etypes, decUserId) ==
    [p |-> p, d |-> d, evtidTypeid |-> evtidTypeid, etypes |-> etypes,
     decUserId |-> decUserId]

\* protocol.go:432-444, body the outcome of d.instance(evtType.typeid)
loopBodyAppend(c, loop1, userid, evtid, evtType, body) ==
    IF ~body.ok \/ body.val.k # "Struct" THEN Failed(AtBody, body.b, loop1)
    ELSE [ok   |-> TRUE,
          at   |-> "",
          b    |-> byteAlign(body.b),
          loop |-> loop1,
          evt  |-> [Struct  |-> annotate(body.val.m, evtid.val.i, evtType.val,
                                         loop1, c.decUserId, userid.val),
                    EvtType |-> evtType.val]]

\* protocol.go:429-432, evtType the outcome of &etypes[evtid]
loopBodyEvtType(c, loop1, userid, evtid, evtType) ==
    IF ~evtType.ok THEN Failed(AtEvtType, evtid.b, loop1)
    ELSE loopBodyAppend(c, loop1, userid, evtid, evtType,
                        instance(c.d, c.p.typeInfos, evtid.b, evtType.val.typeid))

\* protocol.go:428-429, evtid the outcome of d.instance(evtidTypeid)
loopBodyEvtid(c, loop1, userid, evtid) ==
    IF ~evtid.ok \/ evtid.val.k # "int64" THEN Failed(AtEvtid, evtid.b, loop1)
    ELSE loopBodyEvtType(c, loop1, userid, evtid, evtTypeAt(c.etypes, evtid.val.i))

\* protocol.go:424-428, userid the outcome of d.instance(useridTypeid), or
\* nil when user ids are not decoded
loopBodyUserid(c, loop1, userid) ==
    IF ~userid.ok THEN Failed(AtUserid, userid.b, loop1)
    ELSE loopBodyEvtid(c, loop1, userid,
                       instance(c.d, c.p.typeInfos, userid.b, c.evtidTypeid))

\* protocol.go:418-426, delta the outcome of d.instance(deltaTypeid)
loopBodyDelta(c, lp, delta) ==
    IF ~delta.ok \/ delta.val.k # "Struct" THEN Failed(AtDelta, delta.b, lp)
    ELSE IF \E key \in DOMAIN delta.val.m : delta.val.m[key].k # "int64"
    THEN Failed(AtLoop, delta.b, lp)
    ELSE loopBodyUserid(c, addDelta(lp, delta.val.m),
                        IF c.decUserId
                        THEN instance(c.d, c.p.typeInfos, delta.b, c.p.replayUseridTypeid)
                        ELSE Ret(NilV, delta.b))

\* One pass of the loop (protocol.go:418-444) on buffer bb with the loop
\* counter at lp: [ok, at, b, loop, evt], evt the event to append.  Each
\* statement is given the values the ones before it produced.
loopBody(p, d, evtidTypeid, etypes, decUserId, bb, lp) ==
    loopBodyDelta(LoopArgs(p, d, evtidTypeid, etypes, decUserId), lp,
                  instance(d, p.typeInfos, bb, p.svaruint32Typeid))

(***************************************************************************)
(* SpecEvts: one run of decodeEvts over a game, message or tracker stream. *)
(* The contents are built of fragments, each the bytes of one event as     *)
(* the framing lays them out, with what they encode noted beside them:     *)
(* the gameloop delta, the user id (game and message streams) and the      *)
(* event id.  end tells how decoding the fragment ends:                    *)
(*   "event"     a whole event whose id has a descriptor                   *)
(*   "past"      the id is past the end of the event-type table            *)
(*   "negative"  the id is negative                                        *)
(*   "gap"       the id falls in a gap of the table                        *)
(*   "cut"       the stream ends within the event                          *)
(*   "short"     the stream ends within the bytes of a blob of the event   *)
(***************************************************************************)
MaxFrags == 3

Frag(bytes, end, delta, userid, id) ==
    [bytes |-> bytes, end |-> end, delta |-> delta, userid |-> userid, id |-> id]

\* Bit-packed, event id of 7 bits (type #0).
GameFrags ==
    { Frag(<< 8, 1, 5 >>, "event", 2, 1, 5),
      Frag(<< 0, 3, 55, 5 >>, "event", 0, 3, 7),
      Frag(<< 5, 44, 2, 5 >>, "event", 300, 2, 5),
      Frag(<< 4, 1, 6 >>, "gap", 1, 1, 6),
      Frag(<< 4, 1, 9 >>, "past", 1, 1, 9),
      Frag(<< 8, 1 >>, "cut", 2, 1, 0),
      Frag(<< 0, 3, 55 >>, "cut", 0, 3, 7),
      Frag(<< 8, 1, 40, 97, 98 >>, "event", 2, 1, 8),
      Frag(<< 8, 1, 40, 97 >>, "short", 2, 1, 8),
      Frag(<< 8, 1, 40 >>, "short", 2, 1, 8) }

\* Bit-packed, event id of 4 bits (type #1).
MessageFrags ==
    { Frag(<< 8, 33, 0 >>, "event", 2, 1, 2),
      Frag(<< 4, 2, 42, 1 >>, "event", 1, 2, 0),
      Frag(<< 4, 1, 1 >>, "gap", 1, 1, 1),
      Frag(<< 4, 33, 1 >>, "past", 1, 1, 3),
      Frag(<< 8, 33 >>, "cut", 2, 1, 0) }

\* Versioned; no user id on the wire.
TrackerFrags ==
    { Frag(<< 3, 0, 9, 6, 9, 0, 5, 0 >>, "event", 3, 0, 0),
      Frag(<< 3, 0, 9, 2, 9, 4, 5, 4, 0, 9, 10, 2, 6, 1 >>, "event", 1, 0, 2),
      Frag(<< 3, 2, 9, 216, 4, 9, 0, 5, 0 >>, "event", 300, 0, 0),
      Frag(<< 3, 0, 9, 3, 9, 0, 5, 0 >>, "event", -1, 0, 0),
      Frag(<< 3, 0, 9, 2, 9, 3, 5, 0 >>, "negative", 1, 0, -1),
      Frag(<< 3, 0, 9, 2, 9, 2, 5, 0 >>, "gap", 1, 0, 1),
      Frag(<< 3, 0, 9, 2, 9, 6, 5, 0 >>, "past", 1, 0, 3),
      Frag(<< 3, 0, 9 >>, "cut", 0, 0, 0) }

\* The streams of up to MaxFrags fragments; a stream can only end within
\* its last event.
FragSeqs(frags) ==
    { s \in UNION { [1..n -> frags] : n \in 0..MaxFrags } :
        \A i \in 1..(Len(s) - 1) : s[i].end \notin { "cut", "short" } }

\* The bytes of the fragments one after the other.
RECURSIVE Bytes(_)
Bytes(s) == IF s = << >> THEN << >> ELSE s[1].bytes \o Bytes(Tail(s))

InitEvts ==
    /\ stream = [kind |-> "none", frags |-> << >>, d |-> "", evtidTypeid |-> 0,
                 etypes |-> << >>, decUserId |-> FALSE]
    /\ events = << >>
    /\ loop = 0
    /\ err = ""
    /\ evpc = "idle"
    /\ b = NewBuff(<< >>, TRUE)
    /\ last = [op |-> "none", n |-> 0, val |-> 0]
    /\ RegIdle

\* The call decodeEvts(d, evtidTypeid, etypes, decUserId) up to the loop
\* (protocol.go:397-415), d a new decoder over the bytes of frags
\* (rep/details.go:259-267, versioneddec.go:16-24).
decodeEvts(kind, frags, d, evtidTypeid, etypes, decUserId) ==
    /\ stream' = [kind |-> kind, frags |-> frags, d |-> d, evtidTypeid |-> evtidTypeid,
                  etypes |-> etypes, decUserId |-> decUserId]
    /\ b' = NewBuff(Bytes(frags), TRUE)
    /\ events' = << >>
    /\ loop' = 0
    /\ err' = ""
    /\ evpc' = "loop"
    /\ UNCHANGED <<regVars, last>>

\* protocol.go:379-381
DecodeGameEvts ==
    /\ evpc = "idle"
    /\ \E frags \in FragSeqs(GameFrags) :
          decodeEvts("game", frags, "bitPackedDec", Proto.gameEventidTypeid,
                     Proto.gameEvtTypes, TRUE)

\* protocol.go:385-387
DecodeMessageEvts ==
    /\ evpc = "idle"
    /\ \E frags \in FragSeqs(MessageFrags) :
          decodeEvts("message", frags, "bitPackedDec", Proto.messageEventidTypeid,
                     Proto.messageEvtTypes, TRUE)

\* protocol.go:391-393
DecodeTrackerEvts ==
    /\ evpc = "idle"
    /\ \E frags \in FragSeqs(TrackerFrags) :
          decodeEvts("tracker", frags, "versionedDec", Proto.trackerEventidTypeid,
                     Proto.trackerEvtTypes, FALSE)

\* The pass of the loop from the state.
Pass ==
    loopBody(Proto, stream.d, stream.evtidTypeid, stream.etypes, stream.decUserId,
             b, loop)

\* The pass appended an event (protocol.go:441-444).
Appended(pass) ==
    /\ pass.ok
    /\ events' = Append(events, pass.evt)
    /\ loop' = pass.loop
    /\ b' = pass.b

\* A pass of the loop that appends an event (protocol.go:417-445).
DecodeEvent ==
    /\ evpc = "loop"
    /\ ~EOF(b)
    /\ Appended(Pass)
    /\ UNCHANGED <<stream, err, evpc, regVars, last>>

\* The pass panicked and the error is dropped.
RecoveredSilently(pass) ==
    /\ ~pass.ok
    /\ err' = err
    /\ loop' = pass.loop
    /\ b' = pass.b

\* The pass panicked: the deferred function sets err (protocol.go:404-410).
Recovered(pass) ==
    /\ ~pass.ok
    /\ err' = pass.at
    /\ loop' = pass.loop
    /\ b' = pass.b

\* A pass of the loop that panics: the deferred function recovers, sets err
\* and decodeEvts returns the events appended so far (protocol.go:404-410).
Recover ==
    /\ evpc = "loop"
    /\ ~EOF(b)
    /\ Recovered(Pass)
    /\ evpc' = "done"
    /\ UNCHANGED <<stream, events, regVars, last>>

\* The loop ends at EOF and decodeEvts returns (protocol.go:417, 447).
Return ==
    /\ evpc = "loop"
    /\ EOF(b)
    /\ evpc' = "done"
    /\ UNCHANGED <<stream, events, loop, err, b, regVars, last>>

NextEvts ==
    \/ DecodeGameEvts
    \/ DecodeMessageEvts
    \/ DecodeTrackerEvts
    \/ DecodeEvent
    \/ Recover
    \/ Return

SpecEvts == InitEvts /\ [][NextEvts]_vars

\* A pass of the loop can be taken (protocol.go:417): the condition under
\* which DecodeEvent or Recover is enabled, a pass either appending an event
\* or ending the decode.
PassEnabled == evpc = "loop" /\ ~EOF(b)

\* decodeEvts is straight-line code on one goroutine: it neither blocks nor
\* waits for anything, so a call that can take a step of its loop takes it.
\* The last conjunct is WF_vars(DecodeEvent \/ Recover) with its ENABLED
\* written out as PassEnabled.
SpecEvtsFair ==
    /\ InitEvts /\ [][NextEvts]_vars
    /\ WF_vars(Return)
    /\ ([]<>~PassEnabled \/ []<><<DecodeEvent \/ Recover>>_vars)

(***************************************************************************)
(* Claims about the registry, checked under SpecReg.                       *)
(***************************************************************************)
\* GetProtocol has returned to goroutine t, and thr[t].ret is what it returned.
Returned(t) == thr[t].pc = "idle" /\ thr[t].arg # Nil

\* The build whose schema a base build resolves to.
Original(x) == IF x \in DOMAIN Duplicates THEN Duplicates[x] ELSE x

\* What the schemas of the Builds table are by construction: PlayerSchema is a
\* well-formed schema of 16561 and TrackerSchema one of 38215; GarbledSchema
\* is malformed.
WellFormedBuilds == {16561, 38215}

MalformedBuilds == {28667}

\* C1: once GetProtocol(b) has returned, every later GetProtocol(b) returns the
\* same result (the identical Protocol, unchanged, or nil again) and no schema
\* is parsed for a build that is in the registry, be its entry nil or not; a
\* registry entry once written is never changed or removed.
C1_ResultIsStable ==
    /\ [](\A t \in Threads :
            Returned(t) => /\ thr[t].arg \in DOMAIN protocols
                           /\ thr[t].ret = protocols[thr[t].arg]
                           /\ Original(thr[t].arg) \in DOMAIN protocols)
    /\ [][/\ \A x \in DOMAIN protocols :
                x \in DOMAIN protocols' /\ protocols'[x] = protocols[x]
          /\ \A i \in 1..Len(heap) : Len(heap') >= i /\ heap'[i] = heap[i]
          /\ \A x \in BaseBuilds :
                parses'[x] # parses[x] => x \notin DOMAIN protocols]_vars

\* C1 witness: a second call for the malformed build 28667 is about to return
\* the cached nil, after a first call returned nil, with one parse in all.
C1_Witness ==
    \E t, u \in Threads :
        /\ t # u
        /\ Returned(t) /\ thr[t].arg = 28667 /\ thr[t].ret = Nil
        /\ thr[u].pc = "unlock" /\ thr[u].arg = 28667 /\ thr[u].ret = Nil
        /\ parses[28667] = 1

\* C2: under every interleaving, a goroutine is inside getProtocol (where the
\* map is read and written) only while it holds protMux, no two are inside at
\* once, every schema is parsed at most once, callers of the same build hold
\* the same result, and a goroutine that has returned does not hold protMux.
C2_GuardedRegistry ==
    /\ \A t \in Threads : thr[t].pc \in {"getProtocol", "unlock"} => protMux = t
    /\ \A t, u \in Threads :
          (thr[t].pc = "getProtocol" /\ thr[u].pc = "getProtocol") => t = u
    /\ \A x \in BaseBuilds : parses[x] <= 1
    /\ \A t, u \in Threads :
          (Returned(t) /\ Returned(u) /\ thr[t].arg = thr[u].arg) => thr[t].ret = thr[u].ret
    /\ \A t \in Threads : thr[t].pc \in {"idle", "panicked"} => protMux # t

\* C2 witness: one goroutine waits for the guard with the same duplicate build
\* that another one, two activations deep, is resolving through its original.
C2_Witness ==
    \E t, u \in Threads :
        /\ t # u
        /\ thr[t].pc = "lock" /\ thr[t].arg \in DOMAIN Duplicates
        /\ thr[u].pc = "getProtocol" /\ thr[u].arg = thr[t].arg
        /\ Len(thr[u].stack) = 2

\* C3: for a duplicate b of o, GetProtocol(b) leaves o resolved in the registry
\* and returns nil when o's entry is nil, and otherwise a Protocol equal to o's
\* in every field but baseBuild, which is b, while o's keeps baseBuild = o.
C3_DuplicateIsClone ==
    \A t \in Threads :
        (Returned(t) /\ thr[t].arg \in DOMAIN Duplicates) =>
            LET o == Duplicates[thr[t].arg]
                p == thr[t].ret
            IN  /\ o \in DOMAIN protocols
                /\ (p = Nil) <=> (protocols[o] = Nil)
                /\ p # Nil =>
                     /\ p # protocols[o]
                     /\ heap[p] = [heap[protocols[o]] EXCEPT !.baseBuild = thr[t].arg]
                     /\ heap[p].baseBuild = thr[t].arg
                     /\ heap[protocols[o]].baseBuild = o

\* C3 witness: GetProtocol(38996) has returned a Protocol while the original
\* 38215 had never been asked for by a caller.
C3_Witness ==
    \E t \in Threads :
        /\ Returned(t) /\ thr[t].arg = 38996 /\ thr[t].ret # Nil
        /\ \A u \in Threads : thr[u].arg # 38215

\* C4: GetProtocol returns nil exactly for a build with neither schema nor
\* alias and for a build whose schema (its own or its original's) is malformed;
\* for a build with its own well-formed schema the Protocol's baseBuild is the
\* build asked for; and no panic of the parse reaches a caller.
C4_NilExactlyWhenUnknown ==
    /\ \A t \in Threads : ~thr[t].panicked /\ thr[t].pc # "panicked"
    /\ \A t \in Threads :
          Returned(t) =>
              LET x == thr[t].arg
              IN  /\ (thr[t].ret = Nil) <=>
                        \/ x \notin DOMAIN Builds \cup DOMAIN Duplicates
                        \/ Original(x) \in MalformedBuilds
                  /\ x \in WellFormedBuilds => heap[thr[t].ret].baseBuild = x

\* C4 witness: calls for the malformed build, for an unknown build and for a
\* well-formed build have all returned.
C4_Witness ==
    \E t, u \in Threads :
        /\ Returned(t) /\ thr[t].arg = 28667 /\ thr[t].ret = Nil
        /\ Returned(u) /\ thr[u].arg = 15000 /\ thr[u].ret = Nil
        /\ {16561, 28672} \subseteq DOMAIN protocols
        /\ protocols[16561] # Nil /\ protocols[28672] = Nil

(***************************************************************************)
(* Claims about the bit buffer, checked under SpecBits.                    *)
(***************************************************************************)
\* The number of bits of contents consumed so far: whole bytes fetched, less
\* the bits of the last one that are still cached.
Pos(bb) == IF bb.cacheBits = 0 THEN 8 * bb.idx ELSE 8 * bb.idx - bb.cacheBits

\* Bit j (from 0) of the MSB-first bit stream of contents: bit 7 of byte 0 is
\* bit 0 of the stream.
StreamBitMsb(contents, j) == (contents[j \div 8 + 1] \div Pow2(7 - (j % 8))) % 2

\* The integer formed by bits k .. k+n-1 of the MSB-first bit stream.
RECURSIVE RefMsb(_, _, _)
RefMsb(contents, k, n) ==
    IF n = 0 THEN 0
    ELSE StreamBitMsb(contents, k) * Pow2(n - 1) + RefMsb(contents, k + 1, n - 1)

\* The integer built most-significant-first from per-byte chunks, starting
\* after k consumed bits: each chunk is the lowest not-yet-consumed bits of
\* its byte.
RECURSIVE RefChunks(_, _, _)
RefChunks(contents, k, n) ==
    IF n = 0 THEN 0
    ELSE LET c    == k % 8
             byte == contents[k \div 8 + 1]
             m    == IF n < 8 - c THEN n ELSE 8 - c
         IN  ((byte \div Pow2(c)) % Pow2(m)) * Pow2(n - m) + RefChunks(contents, k + m, n - m)

\* The step is a big-endian readBits(n), n >= 1, that returned.
BigReadStep ==
    /\ last'.op = "readBits"
    /\ last'.n >= 1
    /\ b.bigEndian

\* C9 as stated: in big-endian mode every readBits(n) returns the next n bits
\* of the buffer's bit stream read MSB-first, the high bit of each byte first.
C9_MsbFirstStream ==
    [][BigReadStep => last'.val = RefMsb(b.contents, Pos(b), last'.n)]_vars

\* C9 amended: in big-endian mode the bytes are taken in order, most
\* significant byte first, but within a byte the low bits are consumed first:
\* a readBits(n) that starts on a byte boundary with n a multiple of 8 returns
\* the MSB-first integer of the next n/8 bytes, and a readBits(n) that stays
\* within one byte, c of whose bits are consumed, returns its bits c..c+n-1
\* counted from the least significant bit.
C9_LowBitsFirst ==
    [][BigReadStep =>
         LET n == last'.n
             c == Pos(b) % 8
         IN  /\ (c = 0 /\ n % 8 = 0) => last'.val = RefMsb(b.contents, Pos(b), n)
             /\ c + n <= 8 =>
                  last'.val = (b.contents[Pos(b) \div 8 + 1] \div Pow2(c)) % Pow2(n)]_vars

\* C9 witness: a 3-bit big-endian read at the start of a buffer whose first
\* byte is 01 has returned 1 (the byte's low three bits; its high three are 0).
C9_Witness ==
    /\ last.op = "readBits" /\ last.n = 3 /\ last.val = 1
    /\ b.bigEndian /\ Pos(b) = 3
    /\ b.contents[1] = 1

\* C10: a big-endian readBits(n) returns the per-byte chunks joined most
\* significant first, each chunk the lowest unconsumed bits of its byte, and
\* consumes n bits; on 01 02 03 04 the reads of 3, 13, 1 and 15 bits return
\* 1, 2, 1 and 0x0104; for n a multiple of 8 with a non-empty cache the
\* optimised path gives the value and the buffer the general path gives.
C10_ChunksMsbFirst ==
    /\ []((last.op = "readBits" /\ b.bigEndian /\ b.contents = << 1, 2, 3, 4 >>) =>
            /\ (Pos(b) = 3 /\ last.n = 3) => last.val = 1
            /\ (Pos(b) = 16 /\ last.n = 13) => last.val = 2
            /\ (Pos(b) = 17 /\ last.n = 1) => last.val = 1
            /\ (Pos(b) = 32 /\ last.n = 15) => last.val = 260)
    /\ [][BigReadStep =>
            /\ last'.val = RefChunks(b.contents, Pos(b), last'.n)
            /\ Pos(b') = Pos(b) + last'.n
            /\ (last'.n % 8 = 0 /\ b.cacheBits # 0) =>
                  LET g == readBitsBig(b, last'.n)
                  IN  g.ok /\ g.val = last'.val /\ g.b = b']_vars

\* C10 witness: the last read of the scenario, 15 bits ending the buffer
\* 01 02 03 04, has returned 0x0104.
C10_Witness ==
    /\ last.op = "readBits" /\ last.n = 15 /\ last.val = 260
    /\ b.bigEndian /\ b.contents = << 1, 2, 3, 4 >> /\ Pos(b) = 32

\* The buffer and the latest call, the call's name and argument before its
\* value: two values of different calls are never compared.
bufView == <<b, last.op, last.n, last>>

\* n successive readBits8 calls, their bytes appended to buff.
RECURSIVE eightBitReads(_, _, _)
eightBitReads(bb, n, buff) ==
    IF Len(buff) = n THEN Ret(buff, bb)
    ELSE IF ~InRange(bb) THEN Panic(bb)
    ELSE eightBitReads(readBits8(bb).b, n, Append(buff, readBits8(bb).val))

\* At least 8n unread bits remain.
BitsRemain(bb, n) == 8 * Len(bb.contents) - Pos(bb) >= 8 * n

\* u, the outcome of readUnaligned(n) on bb, is that of n 8-bit reads.
SameAsEightBitReads(bb, n, u) ==
    /\ u.ok
    /\ u.val = eightBitReads(bb, n, << >>).val
    /\ u.b = eightBitReads(bb, n, << >>).b
    /\ u.b.cacheBits = bb.cacheBits

\* C14: when at least 8n unread bits remain, readUnaligned(n) returns the
\* bytes and leaves the buffer (idx, cacheBits, residual bits) that n
\* successive 8-bit reads would, for either endianness, every count of
\* residual bits and every n, and cacheBits is the same before and after.
C14_UnalignedIsEightBitReads ==
    /\ [](Running =>
            \A n \in 0..MaxBytes :
                BitsRemain(b, n) => SameAsEightBitReads(b, n, readUnaligned(b, n)))
    /\ [][(last'.op = "readUnaligned" /\ BitsRemain(b, last'.n)) =>
            SameAsEightBitReads(b, last'.n, Ret(last'.val, b'))]_bufView

\* C14 witness: the optimised loop has read three bytes across byte
\* boundaries, five residual bits cached before and after.
C14_Witness ==
    /\ last.op = "readUnaligned" /\ last.n = 3
    /\ b.cacheBits = 5 /\ b.idx = 4
    /\ Len(b.contents) = 4

\* The step is a readAligned(n) that returned.
ReadAlignedStep == last'.op = "readAligned"

\* byteAlign is idempotent and changes nothing without residual bits.
ByteAlignIdempotent ==
    /\ byteAlign(byteAlign(b)) = byteAlign(b)
    /\ b.cacheBits = 0 => byteAlign(b) = b

\* C15 as stated: readAligned(n) discards the residual bits and returns
\* exactly the next n whole bytes contents[idx..idx+n), advancing the byte
\* cursor by n so that the next read starts after them; byteAlign is
\* idempotent and changes nothing when no residual bits are cached.
C15_ReadAlignedNextBytes ==
    /\ []ByteAlignIdempotent
    /\ [][ReadAlignedStep =>
            /\ b'.cacheBits = 0
            /\ b'.idx = b.idx + last'.n
            /\ Len(last'.val) = last'.n
            /\ \A i \in 1..last'.n : last'.val[i] = b.contents[b.idx + i]]_bufView

\* C15 amended: readAligned(n) discards the residual bits and returns n
\* bytes.  When n whole bytes remain they are contents[idx..idx+n) and the
\* cursor advances by n; when fewer remain the bytes that do remain come
\* first, the rest are 0, and the cursor stops at the end of the buffer.
\* byteAlign is idempotent and changes nothing without residual bits.
C15_ReadAlignedWhenBytesRemain ==
    /\ []ByteAlignIdempotent
    /\ [][ReadAlignedStep =>
            LET n    == last'.n
                left == Len(b.contents) - b.idx
            IN  /\ b'.cacheBits = 0
                /\ Len(last'.val) = n
                /\ b'.idx = b.idx + (IF n <= left THEN n ELSE left)
                /\ \A i \in 1..n :
                      last'.val[i] = IF i <= left THEN b.contents[b.idx + i] ELSE 0]_bufView

\* C15 witness: readAligned(2) has returned the bytes 02 03 of a buffer
\* 01 02 03 04 whose first byte had been begun; the cursor is after them.
C15_Witness ==
    /\ last.op = "readAligned" /\ last.n = 2
    /\ last.val = << 2, 3 >>
    /\ b.contents = << 1, 2, 3, 4 >> /\ b.idx = 3 /\ b.cacheBits = 0

\* C28: after every operation of the buffer that returns (readBits,
\* readBits1, readBits8, readAligned, readUnaligned, byteAlign, either
\* endianness), idx is in 0..len, cacheBits is in 0..8, and when cacheBits > 0
\* the cache holds the bits of contents[idx-1] not yet consumed, its high
\* cacheBits bits, in the low cacheBits bits of the cache, the bits above
\* them zero.
C28_BufferInvariant ==
    Running =>
        /\ b.idx \in 0..Len(b.contents)
        /\ b.cacheBits \in 0..8
        /\ b.cacheBits > 0 =>
              /\ b.idx >= 1
              /\ b.cache = Shr(b.contents[b.idx], 8 - b.cacheBits)
              /\ b.cache < Pow2(b.cacheBits)

\* C28 witness: a readUnaligned of 3 bytes from within a byte has returned
\* with three bits of the fourth byte, not all zero, in the cache.
C28_Witness ==
    /\ last.op = "readUnaligned" /\ last.n = 3
    /\ b.idx = 4 /\ b.cacheBits = 3
    /\ b.cache # 0
    /\ b.cache = b.contents[4] \div 32

(***************************************************************************)
(* Claims about readBits on its int64 carrier, checked under SpecWide.     *)
(***************************************************************************)
\* Bit j (from 0) of the LSB-first bit stream of contents: bit (j mod 8) of
\* byte (j div 8), counted from the least significant bit.
StreamBitLsb(contents, j) == (contents[j \div 8 + 1] \div Pow2(j % 8)) % 2

\* The int64 whose bit i, i < n, is bit k+i of the LSB-first stream.
RefLsb64(contents, k, n) ==
    [i \in Word |-> IF i < n THEN StreamBitLsb(contents, k + i) ELSE 0]

\* The int64 of a number of up to 31 bits.
Int64Of(x) == [i \in Word |-> IF i < 31 THEN (x \div Pow2(i)) % 2 ELSE 0]

\* The step is a little-endian readBits(n), n in 1..63, that returned.
LittleReadStep ==
    /\ last'.op = "readBits"
    /\ last'.n >= 1 /\ last'.n <= 63
    /\ ~b.bigEndian

\* C11: a little-endian readBits(n), n in 1..63, made after k bits were
\* consumed returns the sum over i < n of bit(k+i) * 2^i of the LSB-first
\* stream; for n a multiple of 8 on an empty cache the whole-byte path gives
\* the value (and the cursor) the general path gives; on 01 02 03 04 the reads
\* of 3, 13, 1 and 15 bits return 1, 0x40, 1 and 0x0201.
C11_LittleEndianLsbFirst ==
    /\ []((last.op = "readBits" /\ ~b.bigEndian /\ b.contents = << 1, 2, 3, 4 >>) =>
            /\ (last.used = 3 /\ last.n = 3) => last.val = Int64Of(1)
            /\ (last.used = 16 /\ last.n = 13) => last.val = Int64Of(64)
            /\ (last.used = 17 /\ last.n = 1) => last.val = Int64Of(1)
            /\ (last.used = 32 /\ last.n = 15) => last.val = Int64Of(513))
    /\ [][LittleReadStep =>
            /\ last'.val = RefLsb64(b.contents, last.used, last'.n)
            /\ (last'.n % 8 = 0 /\ b.cacheBits = 0) =>
                  LET g == readBitsLittle64(b, last'.n)
                  IN  /\ g.ok /\ g.val = last'.val
                      /\ g.b.idx = b'.idx /\ g.b.cacheBits = b'.cacheBits]_vars

\* C11 witness: the last read of the scenario, 15 bits ending the
\* little-endian buffer 01 02 03 04, has returned 0x0201.
C11_Witness ==
    /\ last.op = "readBits" /\ last.n = 15 /\ last.used = 32
    /\ last.val = Int64Of(513)
    /\ ~b.bigEndian /\ b.contents = << 1, 2, 3, 4 >>

\* The step is a readBits(0).
ZeroReadStep == last'.op = "readBits" /\ last'.n = 0

\* C12 as stated: readBits(n) returns a nonnegative integer for every n in
\* 0..64, whatever the contents, the endianness and the residual bits, and
\* readBits(0) returns 0 and leaves idx, cache and cacheBits unchanged.
C12_NeverNegative ==
    /\ [](last.op = "readBits" => ~Negative64(last.val))
    /\ [][ZeroReadStep => last'.val = Zero64 /\ b' = b]_vars

\* The byte that holds bit j of the stream.
ByteOfBit(contents, j) == contents[j \div 8 + 1]

\* C12 amended: readBits(n) returns a nonnegative integer for every n in
\* 0..63 (the bits from n up are 0); readBits(64) returns the 64 bits as an
\* int64, negative exactly when the bit that lands in the sign position is 1
\* (big-endian: bit 7 of the first byte read from; little-endian: the last
\* bit read); readBits(0) returns 0 and leaves the buffer unchanged.
C12_NonNegativeBelow64 ==
    /\ [][last'.op = "readBits" =>
            /\ \A i \in Word : i >= last'.n => last'.val[i] = 0
            /\ last'.n <= 63 => ~Negative64(last'.val)
            /\ last'.n = 64 =>
                  (Negative64(last'.val) <=>
                     IF b.bigEndian
                     THEN ByteOfBit(b.contents, last.used) >= 128
                     ELSE StreamBitLsb(b.contents, last.used + 63) = 1)]_vars
    /\ [][ZeroReadStep => last'.val = Zero64 /\ b' = b]_vars

\* C12 witness: a readBits(64) made with residual bits cached has returned a
\* negative value.
C12_Witness ==
    /\ last.op = "readBits" /\ last.n = 64
    /\ Negative64(last.val)
    /\ b.cacheBits # 0

\* C13: EOF() is true exactly when no residual bits are cached and the byte
\* cursor is at the end of the buffer; after readBits, readBits1 and readBits8
\* calls that consumed k bits of a buffer of len bytes it is true exactly
\* when k = 8 * len, and it is true at once on an empty buffer.
C13_EofExactlyAtEnd ==
    Running =>
        /\ EOF(b) <=> (b.cacheBits = 0 /\ b.idx = Len(b.contents))
        /\ EOF(b) <=> last.used = 8 * Len(b.contents)
        /\ (last.op = "none" /\ b.contents = << >>) => EOF(b)

\* C13 witness: the calls have consumed all but one bit of a non-empty
\* buffer, the cursor is at its end and EOF() is still false.
C13_Witness ==
    /\ Running
    /\ last.used = 8 * Len(b.contents) - 1
    /\ b.idx = Len(b.contents) /\ b.cacheBits = 1
    /\ ~EOF(b)

(***************************************************************************)
(* Claims about readVarInt, checked under SpecVar.                         *)
(***************************************************************************)
\* The number of bytes up to and including the first whose bit 7 is clear.
VarCount(contents) ==
    CHOOSE j \in 1..Len(contents) :
        contents[j] < 128 /\ \A i \in 1..(j - 1) : contents[i] >= 128

\* The low 7 bits of those bytes joined, the first byte's lowest.
VarAccOf(contents) ==
    [i \in Word |->
        IF i \div 7 < VarCount(contents)
        THEN (contents[i \div 7 + 1] \div Pow2(i % 7)) % 2
        ELSE 0]

\* acc >> 1 on an unsigned accumulator.
Lsr64(acc) == [i \in Word |-> IF i < WordBits - 1 THEN acc[i + 1] ELSE 0]

\* The bytes readVarInt has consumed.
Consumed == SubSeq(b.contents, 1, b.idx)

\* C16: readVarInt reads the bytes up to and including the first one whose
\* bit 7 is clear and no more, joins their low 7 bits (first byte lowest)
\* into an accumulator and returns -(acc >> 1) when the accumulator's lowest
\* bit is 1 and acc >> 1 otherwise; 02 gives +1, 03 gives -1, 80 01 gives
\* +64, 81 01 gives -64 and AC 02 gives +150.
C16_VarIntSignMagnitude ==
    last.op = "readVarInt" =>
        /\ b.idx = VarCount(b.contents) /\ b.cacheBits = 0
        /\ last.val = IF VarAccOf(b.contents)[0] = 1
                      THEN Neg64(Lsr64(VarAccOf(b.contents)))
                      ELSE Lsr64(VarAccOf(b.contents))
        /\ Consumed = << 2 >> => last.val = Int64Of(1)
        /\ Consumed = << 3 >> => last.val = Neg64(Int64Of(1))
        /\ Consumed = << 128, 1 >> => last.val = Int64Of(64)
        /\ Consumed = << 129, 1 >> => last.val = Neg64(Int64Of(64))
        /\ Consumed = << 172, 2 >> => last.val = Int64Of(150)

\* C16 witness: readVarInt has read the ten bytes 81 80 80 80 80 80 80 80
\* 80 01, whose accumulator is 2^63 + 1, followed by more bytes, and has
\* returned +2^62.
C16_Witness ==
    /\ last.op = "readVarInt"
    /\ Consumed = << 129, 128, 128, 128, 128, 128, 128, 128, 128, 1 >>
    /\ Len(b.contents) > b.idx
    /\ last.val = PowerOfTwo64(WordBits - 2)

\* C17: for every v with -2^62 <= v < 2^62, readVarInt on the bytes an
\* independent encoder produced for v returns v.
C17_VarIntRoundTrip ==
    last.op = "readVarInt" => last.val = ToInt64(stream.value)

\* C17 witness: the bytes encoded for -2^62 have been decoded, to +2^62.
C17_Witness ==
    /\ last.op = "readVarInt"
    /\ stream.value = [neg |-> TRUE, mag |-> PowerOfTwo64(WordBits - 2)]
    /\ last.val = PowerOfTwo64(WordBits - 2)
    /\ last.val # ToInt64(stream.value)

\* Except at -2^62 the two hold: every other value of the range decodes to
\* itself, by the sign-and-magnitude rule.
VarIntHoldsBelowSignBit ==
    (last.op = "readVarInt"
       /\ stream.value # [neg |-> TRUE, mag |-> PowerOfTwo64(WordBits - 2)]) =>
        /\ last.val = ToInt64(stream.value)
        /\ last.val = IF VarAccOf(b.contents)[0] = 1
                      THEN Neg64(Lsr64(VarAccOf(b.contents)))
                      ELSE Lsr64(VarAccOf(b.contents))

(***************************************************************************)
(* Claims about the decoders on single values, checked under SpecDec.      *)
(***************************************************************************)
\* The value the versioned decoder gives for x alone, decoded as typeid.
DecodedAlone(typeid, x) ==
    versionedInstance(DecTypeInfos, NewBuff(wireBytes(x), TRUE), typeid).val

\* The fields of ti whose tag is the tag of a pair of kids.
FieldsOnWire(ti, kids) ==
    { i \in 1..Len(ti.fields) : \E j \in 1..Len(kids) : kids[j].tag = ti.fields[i].tag }

\* The pair of kids with the tag of field i.
PairOfField(ti, kids, i) == CHOOSE j \in 1..Len(kids) : kids[j].tag = ti.fields[i].tag

\* The struct of the fields on the wire, each name with the value of its pair.
StructOfPairs(ti, kids) ==
    [name \in { ti.fields[i].name : i \in FieldsOnWire(ti, kids) } |->
        DecodedAlone(ti.fields[CHOOSE i \in FieldsOnWire(ti, kids) : ti.fields[i].name = name].typeid,
                     kids[PairOfField(ti, kids,
                                      CHOOSE i \in FieldsOnWire(ti, kids) :
                                          ti.fields[i].name = name)].x)]

\* The versioned decoder was called on a struct of #8 or #9, the structs of
\* distinct tags and no __parent.
StructDecoded ==
    /\ stream.kind = "wire"
    /\ stream.typeid \in {8, 9}
    /\ last.op \in {"versionedDec", "panic"}

\* C18: decoding a versioned Struct of distinct tags and no __parent field
\* gives, in whatever order its (tag, value) pairs are on the wire, the
\* struct of exactly the schema fields whose tags are on the wire, each under
\* its schema name with the decoded value of its pair; a pair whose tag the
\* schema does not have is skipped and adds nothing.
C18_StructWireOrder ==
    StructDecoded =>
        /\ last.op = "versionedDec"
        /\ last.val = StructV(StructOfPairs(DecTypeInfos[stream.typeid + 1], stream.x.kids))
        /\ b.idx = Len(wireBytes(stream.x))

\* C18 witness: a struct of #8 was decoded whose pairs are on the wire in
\* the order z, an unknown tag, y, another unknown tag, x, against x, y, z
\* of the schema, and the result holds the three fields.
C18_Witness ==
    /\ StructDecoded
    /\ stream.typeid = 8
    /\ Len(stream.x.kids) = 5
    /\ stream.x.kids[1].tag = 5 /\ stream.x.kids[2].tag = 9 /\ stream.x.kids[3].tag = 0
    /\ stream.x.kids[4].tag = 7 /\ stream.x.kids[5].tag = 2
    /\ last.op = "versionedDec"
    /\ DOMAIN last.val.m = {"x", "y", "z"}
    /\ last.val.m["x"] = IntV(-150)
    /\ last.val.m["y"] = BoolV(TRUE)

\* One of the decoders was called on a value its type describes, or the
\* skipper on a value of any kind.
MatchingCall ==
    /\ stream.kind = "wire"
    /\ last.op # "none"
    /\ stream.matches \/ (last.op = "skipInstance" /\ stream.typeid < 0)

ChoiceDecoded ==
    /\ stream.typeid \in {7, 11}
    /\ last.op \in {"versionedDec", "bitPackedDec", "panic"}

\* The tag on the wire: the varint written, or the two bits the bit-packed
\* decoder takes first of the first byte.
WireTag == IF stream.kind = "wire" THEN stream.x.n ELSE stream.tail[1] % 4

\* The variants of the choice.
Variants == DecTypeInfos[stream.typeid + 1].fields

\* The result is the struct of the one field name.
SingleField(name) ==
    /\ last.val.k = "Struct"
    /\ DOMAIN last.val.m = {name}
    /\ stream.kind = "wire" =>
          last.val.m[name] = DecodedAlone(Variants[WireTag + 1].typeid, stream.x.kids[1].x)

\* C20: in both decoders a Choice whose tag is greater than or equal to the
\* number of declared variants decodes to Null without a failure; with a
\* smaller tag the value is the struct of the single field named as the
\* variant of that tag, holding the decoded value of the variant's type.
C20_ChoiceTagOutOfRange ==
    ChoiceDecoded =>
        IF WireTag >= Len(Variants)
        THEN last.op # "panic" /\ last.val = NilV
        ELSE last.op # "panic" => SingleField(Variants[WireTag + 1].name)

\* C20 witness: both decoders meet a tag that is the number of the variants:
\* the bit-packed one tag 3 of the three variants of #7, and it panics.
C20_Witness ==
    /\ ChoiceDecoded
    /\ stream.kind = "bits"
    /\ stream.typeid = 7
    /\ WireTag = 3
    /\ WireTag = Len(Variants)
    /\ last.op = "panic"

\* What holds of C20: the tags above the number of variants give Null, the
\* tags below it the single-field struct, and only the tag equal to it fails.
ChoiceTagNotTheCount ==
    ChoiceDecoded =>
        /\ WireTag > Len(Variants) => last.op # "panic" /\ last.val = NilV
        /\ WireTag = Len(Variants) => last.op = "panic"
        /\ (WireTag < Len(Variants) /\ last.op # "panic") =>
              SingleField(Variants[WireTag + 1].name)

\* The position on the wire of the pair of tag t, and its value.
PosOfTag(kids, t) == CHOOSE j \in 1..Len(kids) : kids[j].tag = t

KidOfTag(kids, t) == kids[PosOfTag(kids, t)].x

\* The buffer the bit-packed decoder started on, and the value it gives for
\* typeid at bb.
BitStart == NewBuff(stream.tail, TRUE)

BitDecoded(bb, typeid) == bitPackedInstance(DecTypeInfos, bb, typeid)

\* A decoder returned from a struct of typeid.
ParentDecoded(kind, typeid) ==
    /\ stream.kind = kind
    /\ stream.typeid = typeid
    /\ last.op \in {"versionedDec", "bitPackedDec", "panic"}

\* The struct of #14 the versioned decoder is to give: P merged, a and b
\* being P's unless their own pair is later on the wire.
Merged14Wire(kids, P) ==
    StructV([name \in {"a", "b"} |->
        IF name = "a"
        THEN IF PosOfTag(kids, 2) > PosOfTag(kids, 1)
             THEN DecodedAlone(1, KidOfTag(kids, 2)) ELSE P.m["a"]
        ELSE IF PosOfTag(kids, 0) > PosOfTag(kids, 1)
             THEN DecodedAlone(0, KidOfTag(kids, 0)) ELSE P.m["b"]])

\* The struct of #14 the bit-packed decoder is to give: the fields are read
\* in the order b, __parent, a, so b is P's and a is the field's own.
Merged14Bits(rb, P, ra) == StructV([name \in {"a", "b"} |-> IF name = "a" THEN ra ELSE P.m["b"]])

\* C21: for a struct field named __parent whose decoded value is P, in both
\* decoders: a Struct P is merged into the enclosing struct, the entry decoded
\* later overwriting the earlier one of the same name (#13, #14); a P that is
\* not a Struct is the result itself when __parent is the only declared field
\* (#10) and is stored under the name __parent otherwise (#15).  A struct
\* whose only field is __parent with Struct value P decodes to P (#13).
C21_ParentSplicing ==
    /\ \A typeid \in {10, 13, 14, 15} : ParentDecoded("wire", typeid) => last.op = "versionedDec"
    /\ ParentDecoded("wire", 10) => last.val = DecodedAlone(0, KidOfTag(stream.x.kids, 0))
    /\ ParentDecoded("wire", 13) => last.val = DecodedAlone(12, KidOfTag(stream.x.kids, 0))
    /\ ParentDecoded("wire", 14) =>
          last.val = Merged14Wire(stream.x.kids, DecodedAlone(12, KidOfTag(stream.x.kids, 1)))
    /\ ParentDecoded("wire", 15) =>
          last.val = StructV([name \in {"__parent", "c"} |->
                                 IF name = "c" THEN DecodedAlone(1, KidOfTag(stream.x.kids, 1))
                                 ELSE DecodedAlone(0, KidOfTag(stream.x.kids, 0))])
    /\ \A typeid \in {10, 13, 14, 15} : ParentDecoded("bits", typeid) => last.op = "bitPackedDec"
    /\ ParentDecoded("bits", 10) => last.val = BitDecoded(BitStart, 0).val
    /\ ParentDecoded("bits", 13) => last.val = BitDecoded(BitStart, 12).val
    /\ ParentDecoded("bits", 14) =>
          last.val = Merged14Bits(BitDecoded(BitStart, 0).val,
                                  BitDecoded(BitDecoded(BitStart, 0).b, 12).val,
                                  BitDecoded(BitDecoded(BitDecoded(BitStart, 0).b, 12).b, 1).val)
    /\ ParentDecoded("bits", 15) =>
          last.val = StructV([name \in {"__parent", "c"} |->
                                 IF name = "c" THEN BitDecoded(BitDecoded(BitStart, 0).b, 1).val
                                 ELSE BitDecoded(BitStart, 0).val])

\* C21 witness: the versioned decoder returned from a struct of #14 whose
\* pairs are on the wire in the order a, __parent, b: a is P's 64, which
\* overwrote the field's own true, and b the field's own -1, which overwrote
\* P's.
C21_Witness ==
    /\ ParentDecoded("wire", 14)
    /\ stream.x.kids[1].tag = 2 /\ stream.x.kids[2].tag = 1 /\ stream.x.kids[3].tag = 0
    /\ last.op = "versionedDec"
    /\ last.val = StructV([name \in {"a", "b"} |-> IF name = "a" THEN IntV(64) ELSE IntV(-1)])

\* The versioned decoder returned from a struct.
StructReturned ==
    /\ stream.kind = "wire"
    /\ stream.x.t = "struct"
    /\ DecTypeInfos[stream.typeid + 1].s2pType = s2pStruct
    /\ last.op = "versionedDec"

\* C29: when the decode of a versioned Struct returns it has consumed the
\* length L and exactly L (tag, value) pairs, of known tags, of unknown tags
\* and of a __parent field of any kind of value: the cursor is at the first
\* byte after the last pair.
C29_StructConsumesItsPairs ==
    StructReturned => b.idx = Len(wireBytes(stream.x)) /\ b.cacheBits = 0

\* C29 witness: the decoder returned from a struct of #10, whose only field
\* is a __parent that is an integer, with a second pair on the wire after
\* the __parent's, and the cursor is before that pair.
C29_Witness ==
    /\ StructReturned
    /\ stream.typeid = 10
    /\ Len(stream.x.kids) = 2
    /\ stream.x.kids[1].tag = 0
    /\ last.val.k = "int64"
    /\ b.idx < Len(wireBytes(stream.x))

\* What holds of C29: every struct is consumed whole but the one whose only
\* declared field is a __parent that is no Struct with pairs after it.
StructConsumedButAfterLoneParent ==
    (StructReturned /\ ~(stream.typeid = 10 /\ stream.x.kids[1].tag = 0)) =>
        b.idx = Len(wireBytes(stream.x)) /\ b.cacheBits = 0

\* The bit-packed decoder returned from the bit array #16.
BitArrDecoded ==
    /\ stream.kind = "bits"
    /\ stream.typeid = 16
    /\ last.op = "bitPackedDec"

\* The length on the wire, the low 6 bits of the first byte, and the buffer
\* after it.
BitArrLen == stream.tail[1] % 64

AfterLen == readBits(BitStart, 6).b

\* The count and the whole bytes of the result: n bits, ceil(n/8) bytes, the
\* first floor(n/8) as readUnaligned gives them.
BitArrWhole ==
    /\ last.val.k = "BitArr"
    /\ last.val.Count = BitArrLen
    /\ Len(last.val.Data) = (BitArrLen + 7) \div 8
    /\ SubSeq(last.val.Data, 1, BitArrLen \div 8) = readUnaligned(AfterLen, BitArrLen \div 8).val

\* The n mod 8 bits read after the whole bytes.
BitArrRest == readBits(readUnaligned(AfterLen, BitArrLen \div 8).b, BitArrLen % 8).val

\* C22 as stated: the bit array has count n and ceil(n/8) bytes, the first
\* floor(n/8) read unaligned, and the final n mod 8 bits are in the high bits
\* of the trailing byte, its low bits zero; length 10 of the bits 1011010011
\* gives the first byte 0xB4 and 11 as the top two bits of the second.
C22_TrailingBitsHigh ==
    BitArrDecoded =>
        /\ BitArrWhole
        /\ BitArrLen % 8 # 0 =>
              last.val.Data[Len(last.val.Data)] = BitArrRest * Pow2(8 - (BitArrLen % 8))
        /\ (stream.tail[1] = 138 /\ stream.tail[2] = 244) =>
              /\ last.val.Data[1] = 180
              /\ last.val.Data[2] \div 64 = 3

\* C22 amended: the final n mod 8 bits are the value of the trailing byte,
\* that is in its low n mod 8 bits with the high bits zero; length 10 of the
\* bits 1011010011 (bytes 8A F4) gives the bytes B4 03.
C22_TrailingBitsLow ==
    BitArrDecoded =>
        /\ BitArrWhole
        /\ BitArrLen % 8 # 0 =>
              /\ last.val.Data[Len(last.val.Data)] = BitArrRest
              /\ last.val.Data[Len(last.val.Data)] < Pow2(BitArrLen % 8)
        /\ (stream.tail[1] = 138 /\ stream.tail[2] = 244) => last.val.Data = << 180, 3 >>

\* C22 witness: the bit array of length 10 was decoded from 8A F4 and has
\* two bytes, the trailing one not zero.
C22_Witness ==
    /\ BitArrDecoded
    /\ stream.tail[1] = 138 /\ stream.tail[2] = 244
    /\ last.val.Count = 10
    /\ Len(last.val.Data) = 2
    /\ last.val.Data[2] # 0

\* The bit-packed decoder was called on the optional Bool #17.
OptionalDecoded ==
    /\ stream.kind = "bits"
    /\ stream.typeid = 17
    /\ last.op \in {"bitPackedDec", "panic"}

\* C23 as stated: the one-byte input C0 decodes to true, 40 to false and 00
\* to Null, the presence bit and the Bool being the first two bits of the
\* byte from its high end.
C23_OptionalBoolHighFirst ==
    OptionalDecoded =>
        /\ stream.tail = << 192 >> => last.val = BoolV(TRUE)
        /\ stream.tail = << 64 >> => last.val = BoolV(FALSE)
        /\ stream.tail = << 0 >> => last.val = NilV

\* C23 amended: the presence bit is the lowest bit of the first byte and
\* the Bool the bit above it: 03 decodes to true, 01 to false, and 00, 02,
\* 40 and C0 to Null.
C23_OptionalBoolLowFirst ==
    OptionalDecoded =>
        /\ last.op = "bitPackedDec"
        /\ last.val = IF stream.tail[1] % 2 = 0 THEN NilV
                      ELSE BoolV((stream.tail[1] \div 2) % 2 = 1)
        /\ b.idx = 1
        /\ b.cacheBits = IF stream.tail[1] % 2 = 0 THEN 7 ELSE 6
        /\ stream.tail = << 3 >> => last.val = BoolV(TRUE)
        /\ stream.tail = << 1 >> => last.val = BoolV(FALSE)
        /\ stream.tail \in { << 0 >>, << 2 >>, << 64 >>, << 192 >> } => last.val = NilV

\* C23 witness: the optional Bool was decoded from the one byte C0 and is
\* Null, one bit of the byte consumed.
C23_Witness ==
    /\ OptionalDecoded
    /\ stream.tail = << 192 >>
    /\ last.op = "bitPackedDec"
    /\ last.val = NilV
    /\ b.cacheBits = 7

\* The versioned decoder was called on a struct of #18 in the buffer of
\* the bytes contents.
Struct18Decoded(contents) ==
    /\ stream.kind = "wire"
    /\ stream.typeid = 18
    /\ b.contents = contents
    /\ last.op \in {"versionedDec", "panic"}

\* The struct {field1: 1, field2: 2}.
BothFields ==
    StructV([name \in {"field1", "field2"} |-> IF name = "field1" THEN IntV(1) ELSE IntV(2)])

\* C24 as stated: under the versioned decoder and the struct type of field1
\* (tag 1, Int) and field2 (tag 2, Int) the bytes 05 02 02 09 02 04 09 04
\* decode to {field1: 1, field2: 2}.
C24_StructOfEightBytes ==
    Struct18Decoded(<< 5, 2, 2, 9, 2, 4, 9, 4 >>) => last.val = BothFields

\* C24 amended: the bytes 05 02 02 09 02 04 09 04 hold the length 1 (the
\* varint 02) and decode to {field1: 1}, the last three bytes left unread;
\* with the length 2 (the varint 04) the bytes 05 04 02 09 02 04 09 04 decode
\* to {field1: 1, field2: 2}.
C24_StructLengthIsVarInt ==
    /\ Struct18Decoded(<< 5, 2, 2, 9, 2, 4, 9, 4 >>) =>
          /\ last.op = "versionedDec"
          /\ last.val = StructV([name \in {"field1"} |-> IntV(1)])
          /\ b.idx = 5
    /\ Struct18Decoded(<< 5, 4, 2, 9, 2, 4, 9, 4 >>) =>
          /\ last.op = "versionedDec"
          /\ last.val = BothFields
          /\ b.idx = 8

\* C24 witness: the bytes 05 02 02 09 02 04 09 04 were decoded and the
\* result has the one field field1.
C24_Witness ==
    /\ Struct18Decoded(<< 5, 2, 2, 9, 2, 4, 9, 4 >>)
    /\ last.op = "versionedDec"
    /\ DOMAIN last.val.m = {"field1"}
    /\ b.idx = 5

(***************************************************************************)
(* Claims about the attributes events, checked under SpecAttr.             *)
(***************************************************************************)
\* vb without the zero bytes at its start.
stripLeadingZeros(vb) ==
    IF \A i \in 1..Len(vb) : vb[i] = 0 THEN << >>
    ELSE SubSeq(vb, CHOOSE i \in 1..Len(vb) : vb[i] # 0 /\ \A j \in 1..(i - 1) : vb[j] = 0,
                Len(vb))

\* DecodeAttributesEvts returned from contents that are not empty.
AttrsReturned ==
    /\ stream.kind = "attributes"
    /\ evpc = "done"
    /\ last.op = "DecodeAttributesEvts"
    /\ ~stream.empty

\* The last attribute of the contents with the scope and the id of attribute j.
LastLike(attrs, j) ==
    CHOOSE k \in j..Len(attrs) :
        /\ attrs[k].attrscope = attrs[j].attrscope /\ attrs[k].attrid = attrs[j].attrid
        /\ \A i \in (k + 1)..Len(attrs) :
              attrs[i].attrscope # attrs[j].attrscope \/ attrs[i].attrid # attrs[j].attrid

\* The record {namespace, attrid, value} of attribute a, its value being
\* value.
AttrRecord(a, value) ==
    StructV([name \in {"namespace", "attrid", "value"} |->
                IF name = "namespace" THEN IntV(a.namespace)
                ELSE IF name = "attrid" THEN IntV(a.attrid)
                ELSE StringV(value)])

\* The records are at scopes[decimal attrscope][decimal attrid], the later
\* of two with the same scope and id in the place of the earlier, and source
\* is in the result exactly from base build 17326 on.
AttrsInScopes ==
    /\ "source" \in DOMAIN last.val.m <=> stream.baseBuild >= 17326
    /\ last.val.m["mapNamespace"] = IntV(999)
    /\ DOMAIN last.val.m["scopes"].m =
          { FormatInt(stream.attrs[j].attrscope) : j \in 1..Len(stream.attrs) }
    /\ \A j \in 1..Len(stream.attrs) :
          /\ DOMAIN last.val.m["scopes"].m[FormatInt(stream.attrs[j].attrscope)].m =
                { FormatInt(stream.attrs[i].attrid) :
                    i \in { k \in 1..Len(stream.attrs) :
                              stream.attrs[k].attrscope = stream.attrs[j].attrscope } }
          /\ last.val.m["scopes"].m[FormatInt(stream.attrs[j].attrscope)]
                 .m[FormatInt(stream.attrs[j].attrid)].m["attrid"] = IntV(stream.attrs[j].attrid)

\* The record stored for attribute j.
StoredFor(j) ==
    last.val.m["scopes"].m[FormatInt(stream.attrs[j].attrscope)].m[FormatInt(stream.attrs[j].attrid)]

\* C25: each attribute's value is its 4 value bytes reversed with only the
\* zero bytes at the start removed, a zero byte after a non-zero one kept,
\* for every 4-byte value; the record {namespace, attrid, value} is at
\* scopes[decimal attrscope][decimal attrid], a later record of the same
\* scope and id in the place of an earlier one, and source is read if and
\* only if baseBuild >= 17326.
C25_AttributeValues ==
    AttrsReturned =>
        /\ AttrsInScopes
        /\ \A j \in 1..Len(stream.attrs) :
              StoredFor(j) =
                  AttrRecord(stream.attrs[LastLike(stream.attrs, j)],
                             stripLeadingZeros(reverse4(stream.attrs[LastLike(stream.attrs, j)].vb)))

\* C25 witness: the contents held an attribute whose value bytes reversed
\* are 41 00 42 43, and the value stored for it is 42 43.
C25_Witness ==
    /\ AttrsReturned
    /\ Len(stream.attrs) = 2
    /\ stream.attrs[2].vb = << 67, 66, 0, 65 >>
    /\ StoredFor(2).m["value"] = StringV(<< 66, 67 >>)

\* The zero bytes of vb are all at its start.
ZerosLeadOnly(vb) == \A i, j \in 1..Len(vb) : (i < j /\ vb[j] = 0) => vb[i] = 0

\* What holds of C25: the places of the records, the replacement and the
\* source are as stated, and so is the value of every attribute whose
\* reversed bytes have no zero after a non-zero byte; of the others what is
\* after their last zero byte is kept.
AttributeValuesZerosLeading ==
    AttrsReturned =>
        /\ AttrsInScopes
        /\ \A j \in 1..Len(stream.attrs) :
              /\ ZerosLeadOnly(reverse4(stream.attrs[LastLike(stream.attrs, j)].vb)) =>
                    StoredFor(j) =
                        AttrRecord(stream.attrs[LastLike(stream.attrs, j)],
                                   stripLeadingZeros(reverse4(stream.attrs[LastLike(stream.attrs, j)].vb)))
              /\ StoredFor(j).m["namespace"] = IntV(999)
              /\ \A i \in 1..Len(StoredFor(j).m["value"].bytes) :
                    StoredFor(j).m["value"].bytes[i] # 0

(***************************************************************************)
(* Claims about the decodes of a root value, checked under SpecRoot.       *)
(***************************************************************************)
\* One of the three calls was made.
RootDone == stream.kind = "root" /\ last.op # "none"

\* The decode fails: the contents end before the root value does, or the
\* root value is no Struct.
RootFails ==
    \/ Len(stream.contents) < Len(stream.full)
    \/ DecTypeInfos[stream.typeid + 1].s2pType # s2pStruct

\* The contents with zero bytes after them up to the length of the whole
\* root value.
ZeroPadded ==
    [i \in 1..Len(stream.full) |->
        IF i <= Len(stream.contents) THEN stream.contents[i] ELSE 0]

\* What the call gives for contents.
RootOf(contents) ==
    CASE stream.call = "DecodeHeader" -> decodeHeader(stream.typeid, contents)
      [] stream.call = "DecodeDetails" -> decodeDetails(stream.typeid, contents)
      [] stream.call = "DecodeInitData" -> decodeInitData(stream.typeid, contents)

\* C26: when the decode of the header, the details or the init data fails,
\* the contents ending before the root value is complete or the root value
\* being no Struct, the caller gets the absent struct or an error (the panic
\* newRep turns into ErrDecoding), never a partly decoded tree.
C26_NoPartialTree ==
    (RootDone /\ RootFails) => last.val = NilV

\* C26 witness: DecodeDetails was called on a struct of #19 whose last pair
\* is a blob of three bytes, the contents ending after the first of them,
\* and returned a struct with the blob 61 00 00.
C26_Witness ==
    /\ RootDone
    /\ stream.call = "DecodeDetails"
    /\ stream.typeid = 19
    /\ Len(stream.contents) = Len(stream.full) - 2
    /\ err = ""
    /\ last.val.k = "Struct"
    /\ last.val.m["name"] = StringV(<< 97, 0, 0 >>)

\* What holds of C26: a failing decode gives the absent struct, or panics,
\* or returns the tree of the contents with zero bytes put in the place of
\* the missing ones; a root that is no Struct gives the absent struct.
PartialTreeIsZeroPadded ==
    /\ (RootDone /\ RootFails) =>
          \/ last.val = NilV
          \/ /\ err = ""
             /\ last.val = RootOf(ZeroPadded).val
    /\ (RootDone /\ err = "" /\ DecTypeInfos[stream.typeid + 1].s2pType # s2pStruct) =>
          last.val = NilV
    /\ (RootDone /\ ~RootFails) => err = "" /\ last.val.k = "Struct"

(***************************************************************************)
(* Claims about the event streams, checked under SpecEvts.                 *)
(***************************************************************************)
\* The fragments the decoder makes an event of: the whole events, and the
\* events whose blob the stream ends in (readAligned copies the bytes there
\* are, bitpackedbuff.go:205-206).
MakesEvent == { "event", "short" }

\* The first fragment of the stream that does not decode to an event; one
\* past the last fragment when all do.
FirstBad ==
    IF \E i \in 1..Len(stream.frags) : stream.frags[i].end \notin MakesEvent
    THEN CHOOSE i \in 1..Len(stream.frags) :
            /\ stream.frags[i].end \notin MakesEvent
            /\ \A j \in 1..(i - 1) : stream.frags[j].end \in MakesEvent
    ELSE Len(stream.frags) + 1

\* The sum of the gameloop deltas on the wire of events 1..k.
RECURSIVE SumDeltas(_, _)
SumDeltas(frags, k) == IF k = 0 THEN 0 ELSE frags[k].delta + SumDeltas(frags, k - 1)

\* The loop entry of the k-th event returned.
LoopOf(k) == events[k].Struct["loop"].i

\* The event types of the schema for the stream.
EventTypesOf(kind) ==
    CASE kind = "game" -> GameEventTypes
      [] kind = "message" -> MessageEventTypes
      [] kind = "tracker" -> TrackerEventTypes

\* The k-th event returned is the k-th event of the wire.
InWireOrder(k) ==
    /\ k <= Len(stream.frags)
    /\ events[k].Struct["id"].i = stream.frags[k].id
    /\ LoopOf(k) = SumDeltas(stream.frags, k)

\* The whole stream decoded: as many events as the wire has, and the last
\* loop is the sum of all the deltas.
WholeStreamSum ==
    (evpc = "done" /\ err = "") =>
        /\ Len(events) = Len(stream.frags)
        /\ loop = SumDeltas(stream.frags, Len(stream.frags))
        /\ Len(events) > 0 => LoopOf(Len(events)) = loop

\* C5 as stated: the loop of the k-th event returned is the sum of the
\* gameloop deltas of events 1..k in wire order, the loop values never
\* decrease along the list, events are in wire order, and after a whole
\* stream the last loop is the sum of all the deltas.
C5_LoopSumNeverDecreases ==
    /\ \A k \in 1..Len(events) :
          /\ InWireOrder(k)
          /\ k > 1 => LoopOf(k - 1) <= LoopOf(k)
    /\ WholeStreamSum

\* C5 amended: the loop of the k-th event returned is the sum of the gameloop
\* deltas of events 1..k in wire order, events are in wire order, and after a
\* whole stream the last loop is the sum of all the deltas.  The loop values
\* never decrease in a game or message stream, whose deltas are unsigned bit
\* fields; the delta of a tracker stream is a signed varint, and there the
\* loop does not decrease at an event whose delta is not negative and
\* decreases at one whose delta is.
C5_LoopIsRunningSum ==
    /\ \A k \in 1..Len(events) :
          /\ InWireOrder(k)
          /\ (k > 1 /\ stream.d = "bitPackedDec") => LoopOf(k - 1) <= LoopOf(k)
          /\ (k > 1 /\ stream.frags[k].delta >= 0) => LoopOf(k - 1) <= LoopOf(k)
          /\ (k > 1 /\ stream.frags[k].delta < 0) =>
                /\ stream.d = "versionedDec"
                /\ LoopOf(k - 1) > LoopOf(k)
    /\ WholeStreamSum

\* C5 witness: a tracker stream of three events has decoded whole, its
\* second delta negative, and the loop of the second event is below the first.
C5_Witness ==
    /\ evpc = "done" /\ err = ""
    /\ stream.kind = "tracker"
    /\ Len(events) = 3
    /\ stream.frags[1].delta > 0 /\ stream.frags[2].delta < 0 /\ stream.frags[3].delta > 0
    /\ LoopOf(2) < LoopOf(1)
    /\ LoopOf(3) = stream.frags[1].delta + stream.frags[2].delta + stream.frags[3].delta

\* The k-th event returned is whole: it is the event of the k-th fragment,
\* with its descriptor, every field of its type and the annotations.
WholeEvent(k) ==
    LET e      == events[k]
        fields == Proto.typeInfos[e.EvtType.typeid + 1].fields
    IN  /\ InWireOrder(k)
        /\ e.EvtType = stream.etypes[stream.frags[k].id + 1]
        /\ DOMAIN e.Struct =
              { fields[j].name : j \in 1..Len(fields) } \cup { "id", "name", "loop" }
                 \cup (IF stream.decUserId THEN { "userid" } ELSE {})

\* C6: when decoding event k+1 fails, decodeEvts returns exactly the k events
\* decoded before it, in wire order, with a non-nil error, and decodes no
\* further; the list never holds a partially decoded event, and a stream
\* that decodes whole returns a nil error.
C6_FailureKeepsDecodedEvents ==
    /\ [](/\ Len(events) <= FirstBad - 1
          /\ \A k \in 1..Len(events) : WholeEvent(k))
    /\ [](evpc = "done" =>
            /\ Len(events) = FirstBad - 1
            /\ (err # "") <=> (FirstBad <= Len(stream.frags)))
    /\ [][(evpc = "loop" /\ evpc' = "done") => events' = events]_vars
    /\ [][evpc # "done"]_vars

\* C6 witness: the second of three events failed to decode: one event and
\* an error are returned.
C6_Witness ==
    /\ evpc = "done" /\ err # ""
    /\ Len(stream.frags) = 3 /\ FirstBad = 2
    /\ Len(events) = 1

\* How a fragment ends whose event id has no descriptor.
NoDescriptor == { "past", "negative", "gap" }

\* The event the loop is about to decode has an id without descriptor.
NextHasNoDescriptor ==
    /\ evpc = "loop"
    /\ Len(events) + 1 <= Len(stream.frags)
    /\ stream.frags[Len(events) + 1].end \in NoDescriptor

\* C7: when the decoded event id has no descriptor in the event-type table
\* (past the end of the table, negative, or in a gap of the table), decoding
\* of the stream stops with an error and no event is produced for that id.
C7_NoDescriptorStopsStream ==
    /\ [](\A k \in 1..Len(events) :
             /\ events[k].Struct["id"].i \in DOMAIN EventTypesOf(stream.kind)
             /\ events[k].EvtType # ZeroEvtType)
    /\ []((evpc = "done" /\ FirstBad <= Len(stream.frags)
             /\ stream.frags[FirstBad].end \in NoDescriptor) =>
            /\ Len(events) = FirstBad - 1
            /\ err = IF stream.frags[FirstBad].end = "gap" THEN AtBody ELSE AtEvtType)
    /\ [][NextHasNoDescriptor => (evpc' = "done" /\ err' # "" /\ events' = events)]_vars

\* C7 witness: after one event, an id in a gap of the table with more of the
\* stream behind it has stopped the decoding at the body of the event.
C7_Witness ==
    /\ evpc = "done" /\ err = AtBody
    /\ Len(stream.frags) = 3 /\ FirstBad = 2
    /\ stream.frags[2].end = "gap"
    /\ Len(events) = 1

\* C8: every event of the game and message decoders has the entries id, name,
\* loop and userid: id the decoded event id, name the name of the descriptor
\* at that id, userid the value decoded between the delta and the event id;
\* the tracker decoder reads no user id and adds no userid entry; after each
\* event the stream is byte-aligned.
C8_EventAnnotations ==
    /\ [](\A k \in 1..Len(events) :
             LET e == events[k].Struct
                 f == stream.frags[k]
             IN  /\ { "id", "name", "loop" } \subseteq DOMAIN e
                 /\ e["id"] = IntV(f.id)
                 /\ e["name"] = NameV(EventTypesOf(stream.kind)[f.id].Name)
                 /\ events[k].EvtType.Name = EventTypesOf(stream.kind)[f.id].Name
                 /\ e["loop"].k = "int64"
                 /\ IF stream.kind \in { "game", "message" }
                    THEN /\ "userid" \in DOMAIN e
                         /\ e["userid"] = StructV("userId" :> IntV(f.userid))
                    ELSE "userid" \notin DOMAIN e)
    /\ [][Len(events') > Len(events) =>
            /\ b'.cacheBits = 0
            /\ b'.idx = Len(Bytes(SubSeq(stream.frags, 1, Len(events'))))]_vars

\* C8 witness: a game stream whose first event ends within a byte has
\* returned two events, the decoder byte-aligned after the second.
C8_Witness ==
    /\ stream.kind = "game"
    /\ Len(events) = 2
    /\ events[1].Struct["id"].i = 7
    /\ events[1].Struct["userid"].m["userId"].i = 3
    /\ events[2].Struct["name"].name = "UserFinishedLoadingSync"
    /\ b.cacheBits = 0 /\ b.idx = 7

\* The stream ends within its last event, the events before it whole.
EndsWithinEvent ==
    /\ Len(stream.frags) > 0
    /\ stream.frags[Len(stream.frags)].end \in { "cut", "short" }
    /\ \A j \in 1..(Len(stream.frags) - 1) : stream.frags[j].end = "event"

\* The bytes of the blob of the last event that the stream holds, and the
\* length the event gives for the blob.
BlobGiven == SubSeq(stream.frags[Len(stream.frags)].bytes, 4,
                    Len(stream.frags[Len(stream.frags)].bytes))

BlobLength == (stream.frags[Len(stream.frags)].bytes[3] \div 16) % 8

\* C27 as stated: when the stream ends before the event being decoded is
\* whole, at any point of the event and within the bytes of a blob too, the
\* decode returns with err set and returns the events before that one only:
\* no event is made of bytes the stream does not hold.
C27_CutStreamSetsError ==
    (evpc = "done" /\ EndsWithinEvent) =>
        /\ err # ""
        /\ Len(events) = Len(stream.frags) - 1

\* C27 witness: a game stream of a whole event and an event whose blob of
\* two bytes has one byte on the wire has returned two events and no error,
\* the second with the blob 97, 0.
C27_Witness ==
    /\ evpc = "done" /\ EndsWithinEvent
    /\ err = ""
    /\ Len(stream.frags) = 2 /\ Len(events) = 2
    /\ stream.frags[2].bytes = << 8, 1, 40, 97 >>
    /\ events[2].Struct["text"] = StringV(<< 97, 0 >>)

\* What holds of a stream that ends within an event: err is set and the
\* events before it are returned when the end is not within the bytes of a
\* blob; when it is, the event is returned with the bytes of the blob that
\* are missing as zeros, and err is not set.
CutWithinBlobIsZeroFilled ==
    (evpc = "done" /\ EndsWithinEvent) =>
        IF stream.frags[Len(stream.frags)].end = "cut"
        THEN /\ err # ""
             /\ Len(events) = Len(stream.frags) - 1
        ELSE /\ err = ""
             /\ Len(events) = Len(stream.frags)
             /\ Len(BlobGiven) < BlobLength
             /\ events[Len(events)].Struct["text"] =
                   StringV([i \in 1..BlobLength |->
                               IF i <= Len(BlobGiven) THEN BlobGiven[i] ELSE 0])

\* A step of the loop of decodeEvts failed: the decode has ended with err set.
PassFailed == evpc' = "done" /\ err' # "" /\ events' = events

\* A step of the loop appended an event and moved the cursor forward by
\* whole bytes, one at least.
PassAdvanced ==
    /\ evpc' = "loop"
    /\ Len(events') = Len(events) + 1
    /\ b.cacheBits = 0 /\ b'.cacheBits = 0
    /\ b'.idx >= b.idx + 1
    /\ b'.idx <= Len(b'.contents)

\* A step found the end of the input and the decode returned.
LoopEnded == EOF(b) /\ evpc' = "done" /\ err' = err /\ events' = events

\* C30: every decode of an event stream terminates (the gameloop delta of
\* the protocol reads 2 bits at least): each pass of the loop either fails,
\* which ends the decode with err set, or moves the byte cursor forward by at
\* least one whole byte, so after finitely many events the loop is at the
\* end of the input and the decode returns.
C30_DecodeTerminates ==
    /\ (evpc = "loop") ~> (evpc = "done")
    /\ [][evpc = "loop" => (PassFailed \/ PassAdvanced \/ LoopEnded)]_vars
    /\ [](Len(events) <= Len(b.contents))

\* C30 witness: the decode of a message stream of three events has returned
\* at the end of the input, after three passes of a byte or more each.
C30_Witness ==
    /\ evpc = "done" /\ err = ""
    /\ stream.kind = "message"
    /\ Len(events) = 3
    /\ EOF(b) /\ b.idx = Len(b.contents) /\ b.idx >= 9

====
